---- MODULE Spec2Model ----
(***************************************************************************)
(* Analytics layer of the dashboard: Dataset archive scoring, the Dataset  *)
(* repository and service queries, and the incident surge analysis.        *)
(*                                                                         *)
(* Python floats are IEEE-754 binary64.  The archive score is computed in  *)
(* floating point, so the score is modelled with binary64 arithmetic       *)
(* (round to nearest, ties to even) on multi-limb integers.                *)
(***************************************************************************)
EXTENDS Integers, Sequences, FiniteSets, TLC

----------------------------------------------------------------------------
(* Only({e(p) : p \in {a}}) is e(a) with a evaluated once, before e: TLC   *)
(* passes operator arguments unevaluated, and the arithmetic below reads   *)
(* each operand many times.                                                *)

Only(S) == CHOOSE r \in S : TRUE

----------------------------------------------------------------------------
(* Natural numbers of arbitrary size: a sequence of limbs, least           *)
(* significant first, without high zero limbs; << >> is 0.                 *)

LimbBits == 15

Base == 2^LimbBits

Pow2(n) == 2^n

RECURSIVE BNorm(_)
BNorm(a) ==
    Only({IF p = << >> THEN << >>
          ELSE IF p[Len(p)] = 0 THEN BNorm(SubSeq(p, 1, Len(p) - 1))
          ELSE p : p \in {a}})

BFromInt(n) == BNorm(<<n % Base, (n \div Base) % Base, n \div (Base * Base)>>)

Limb(a, i) == IF i <= Len(a) THEN a[i] ELSE 0

\* the limbs of a + b from limb ic[1] on, ic[2] being the carry into that limb
RECURSIVE BAddFrom(_, _, _)
BAddFrom(a, b, ic) ==
    IF ic[1] > Len(a) /\ ic[1] > Len(b)
    THEN IF ic[2] = 0 THEN << >> ELSE <<ic[2]>>
    ELSE <<(Limb(a, ic[1]) + Limb(b, ic[1]) + ic[2]) % Base>>
         \o Only({BAddFrom(a, b, nx) :
                  nx \in {<<ic[1] + 1, (Limb(a, ic[1]) + Limb(b, ic[1]) + ic[2]) \div Base>>}})

BAdd(a, b) == Only({BAddFrom(p, q, <<1, 0>>) : p \in {a}, q \in {b}})

\* a - b for a >= b: the limbs from limb ib[1] on, ib[2] being the borrow from
\* that limb
RECURSIVE BSubFrom(_, _, _)
BSubFrom(a, b, ib) ==
    IF ib[1] > Len(a) THEN << >>
    ELSE <<(Limb(a, ib[1]) - Limb(b, ib[1]) - ib[2]) % Base>>
         \o Only({BSubFrom(a, b, nx) :
                  nx \in {<<ib[1] + 1,
                            IF Limb(a, ib[1]) - Limb(b, ib[1]) - ib[2] < 0 THEN 1 ELSE 0>>}})

BSub(a, b) == Only({BNorm(BSubFrom(p, q, <<1, 0>>)) : p \in {a}, q \in {b}})

\* -1, 0, 1 as a < b, a = b, a > b, for a and b of equal length compared from
\* limb i down
RECURSIVE BCmpFrom(_, _, _)
BCmpFrom(a, b, i) ==
    IF i = 0 THEN 0
    ELSE IF a[i] < b[i] THEN -1
    ELSE IF a[i] > b[i] THEN 1
    ELSE Only({BCmpFrom(a, b, nx) : nx \in {i - 1}})

BCmp(a, b) ==
    Only({IF Len(p) < Len(q) THEN -1
          ELSE IF Len(p) > Len(q) THEN 1
          ELSE BCmpFrom(p, q, Len(p)) : p \in {a}, q \in {b}})

\* a * k for 0 <= k < Base: the limbs from limb ic[1] on, ic[2] being the carry
\* into that limb
RECURSIVE BMulSmallFrom(_, _, _)
BMulSmallFrom(a, k, ic) ==
    IF ic[1] > Len(a)
    THEN IF ic[2] = 0 THEN << >> ELSE <<ic[2]>>
    ELSE <<(a[ic[1]] * k + ic[2]) % Base>>
         \o Only({BMulSmallFrom(a, k, nx) :
                  nx \in {<<ic[1] + 1, (a[ic[1]] * k + ic[2]) \div Base>>}})

BMulSmall(a, k) == Only({BNorm(BMulSmallFrom(p, q, <<1, 0>>)) : p \in {a}, q \in {k}})

RECURSIVE BMul(_, _)
BMul(a, b) ==
    Only({IF q = << >> \/ p = << >> THEN << >>
          ELSE BAdd(BMulSmall(p, q[1]), BNorm(<<0>> \o BMul(p, Tail(q)))) :
          p \in {a}, q \in {b}})

\* quotient and remainder of a by k, 0 < k < Base, limbs taken from the top:
\* st is <<next limb, remainder so far, quotient limbs so far>>
RECURSIVE BDivSmallFrom(_, _, _)
BDivSmallFrom(a, k, st) ==
    IF st[1] = 0 THEN [q |-> BNorm(st[3]), r |-> st[2]]
    ELSE Only({BDivSmallFrom(a, k, nx) :
               nx \in {<<st[1] - 1,
                         (st[2] * Base + a[st[1]]) % k,
                         <<(st[2] * Base + a[st[1]]) \div k>> \o st[3]>>}})

BDivSmall(a, k) ==
    Only({BDivSmallFrom(p, q, <<Len(p), 0, << >> >>) : p \in {a}, q \in {k}})

Zeros(n) == [i \in 1..n |-> 0]

\* a * 2^n
BShl(a, n) ==
    Only({IF p = << >> THEN << >>
          ELSE Zeros(q \div LimbBits) \o BMulSmall(p, Pow2(q % LimbBits)) :
          p \in {a}, q \in {n}})

\* floor(a / 2^n)
BShr(a, n) ==
    Only({IF q \div LimbBits >= Len(p) THEN << >>
          ELSE BDivSmall(SubSeq(p, q \div LimbBits + 1, Len(p)), Pow2(q % LimbBits)).q :
          p \in {a}, q \in {n}})

RECURSIVE IntBitLen(_)
IntBitLen(n) == IF n = 0 THEN 0 ELSE 1 + Only({IntBitLen(p) : p \in {n \div 2}})

BBitLen(a) ==
    Only({IF p = << >> THEN 0
          ELSE LimbBits * (Len(p) - 1) + IntBitLen(p[Len(p)]) : p \in {a}})

----------------------------------------------------------------------------
(* binary64: the value is (-1)^neg * man * 2^exp with man a 53-bit natural *)
(* whose top bit is set; zero has the empty mantissa.  The values of this  *)
(* program stay far inside the normal range, so subnormals, infinities and *)
(* NaN do not arise.                                                       *)

MantBits == 53

FZero == [neg |-> FALSE, man |-> << >>, exp |-> 0]

IsZero(u) == u.man = << >>

\* -1, 0, 1 as the r low bits of n, dropped to leave q, are less than, equal to
\* or more than half a unit of q
DroppedHalf(n, q, r) == BCmp(BSub(n, BShl(q, r)), BShl(<<1>>, r - 1))

\* q rounded to nearest, ties to even; c compares the dropped part (sticky: and
\* a nonzero tail below it) with half a unit of q
RoundNearestEven(q, c, sticky) ==
    IF c = 1 \/ (c = 0 /\ (sticky \/ (q # << >> /\ q[1] % 2 = 1)))
    THEN BAdd(q, <<1>>) ELSE q

\* the double of mantissa m, which has MantBits bits or, after a carry, one more
F64Pack(neg, m, e) ==
    IF BBitLen(m) > MantBits
    THEN [neg |-> neg, man |-> BShr(m, 1), exp |-> e + 1]
    ELSE [neg |-> neg, man |-> m, exp |-> e]

\* The double of sign neg nearest to n * 2^e, ties to even, where n has len
\* bits.  sticky: a nonzero tail below n was already discarded.
F64RoundLen(neg, n, e, sticky, len) ==
    IF len <= MantBits
    THEN [neg |-> neg, man |-> BShl(n, MantBits - len), exp |-> e - (MantBits - len)]
    ELSE Only({F64Pack(neg, m, e + len - MantBits) :
               m \in {Only({RoundNearestEven(q, DroppedHalf(n, q, len - MantBits), sticky) :
                            q \in {BShr(n, len - MantBits)}})}})

F64Round(neg, n, e, sticky) ==
    Only({IF p = << >> THEN FZero
          ELSE Only({F64RoundLen(neg, p, q, sticky, len) : len \in {BBitLen(p)}}) :
          p \in {n}, q \in {e}})

\* float(n) for an integer n
FromInt(n) ==
    IF n < 0 THEN F64Round(TRUE, BFromInt(-n), 0, FALSE)
    ELSE F64Round(FALSE, BFromInt(n), 0, FALSE)

FNeg(u) == Only({IF IsZero(p) THEN p ELSE [p EXCEPT !.neg = ~p.neg] : p \in {u}})

FMul(u, w) ==
    Only({IF IsZero(p) \/ IsZero(q) THEN FZero
          ELSE F64Round(p.neg # q.neg, BMul(p.man, q.man), p.exp + q.exp, FALSE) :
          p \in {u}, q \in {w}})

\* u + w for nonzero u, w whose mantissas nu, nw are aligned at exponent e
FAddAligned(u, w, e, nu, nw) ==
    IF u.neg = w.neg THEN F64Round(u.neg, BAdd(nu, nw), e, FALSE)
    ELSE Only({IF c = 0 THEN FZero
               ELSE IF c = 1 THEN F64Round(u.neg, BSub(nu, nw), e, FALSE)
               ELSE F64Round(w.neg, BSub(nw, nu), e, FALSE) :
               c \in {BCmp(nu, nw)}})

\* u + w for nonzero u, w, added at exponent e, the smaller of theirs
FAddAt(u, w, e) ==
    Only({FAddAligned(u, w, e, nu, nw) :
          nu \in {BShl(u.man, u.exp - e)}, nw \in {BShl(w.man, w.exp - e)}})

FAdd(u, w) ==
    Only({IF IsZero(p) THEN q
          ELSE IF IsZero(q) THEN p
          ELSE FAddAt(p, q, IF p.exp < q.exp THEN p.exp ELSE q.exp) :
          p \in {u}, q \in {w}})

FSub(u, w) == FAdd(u, FNeg(w))

\* u / k for an integer 0 < k < Base (k converts to float exactly)
FDivInt(u, k) ==
    Only({IF IsZero(p) THEN FZero
          ELSE Only({F64Round(p.neg, d.q, p.exp - 2 * LimbBits, d.r # 0) :
                     d \in {BDivSmall(<<0, 0>> \o p.man, q)}}) :
          p \in {u}, q \in {k}})

\* the quotient bits of r / b for r < 2 * b, one bit per step; st is
\* <<bits left, remainder so far, quotient so far>>
RECURSIVE BDivBits(_, _)
BDivBits(b, st) ==
    IF st[1] = 0 THEN [q |-> st[3], r |-> st[2]]
    ELSE Only({BDivBits(b, nx) :
               nx \in {IF BCmp(st[2], b) >= 0
                       THEN <<st[1] - 1, BMulSmall(BSub(st[2], b), 2),
                              BAdd(BMulSmall(st[3], 2), <<1>>)>>
                       ELSE <<st[1] - 1, BMulSmall(st[2], 2), BMulSmall(st[3], 2)>>}})

\* n more quotient bits after those of d
BDivMore(b, d, n) == Only({BDivBits(b, <<n, e.r, e.q>>) : e \in {d}})

\* floor(a * 2^(MantBits + 3) / b) for a < 2 * b, and the remainder left: the
\* MantBits + 4 quotient bits, taken LimbBits - 1 at a time
BDivMant(a, b) ==
    BDivMore(b, BDivMore(b, BDivMore(b, BDivMore(b, [q |-> << >>, r |-> a],
        MantBits + 4 - 3 * (LimbBits - 1)), LimbBits - 1), LimbBits - 1), LimbBits - 1)

\* u / w for w nonzero
FDiv(u, w) ==
    Only({IF IsZero(p) THEN FZero
          ELSE Only({F64Round(p.neg # q.neg, d.q, p.exp - q.exp - (MantBits + 3),
                              d.r # << >>) :
                     d \in {BDivMant(p.man, q.man)}}) :
          p \in {u}, q \in {w}})

\* u < w
FLess(u, w) ==
    Only({IF IsZero(p) THEN ~IsZero(q) /\ ~q.neg
          ELSE IF IsZero(q) THEN p.neg
          ELSE IF p.neg # q.neg THEN p.neg
          ELSE IF p.exp # q.exp THEN (IF p.neg THEN p.exp > q.exp ELSE p.exp < q.exp)
          ELSE IF p.neg THEN BCmp(p.man, q.man) = 1
          ELSE BCmp(p.man, q.man) = -1 :
          p \in {u}, q \in {w}})

\* the integer nearest to n / 2^r, ties to even, for r > 0
BRoundShr(n, r) ==
    Only({RoundNearestEven(q, DroppedHalf(n, q, r), FALSE) : q \in {BShr(n, r)}})

\* round(u, 2) for |u| < 2^52: the double nearest to u rounded half-even to
\* 2 decimals
FRound2(u) ==
    Only({IF IsZero(p) \/ p.exp >= 0 THEN p
          ELSE FDivInt(F64Round(p.neg, BRoundShr(BMulSmall(p.man, 100), -p.exp), 0, FALSE),
                       100) :
          p \in {u}})

----------------------------------------------------------------------------
(* Python's None and an Optional value: << >> is None, <<v>> holds v.      *)

None == << >>

Some(v) == <<v>>

----------------------------------------------------------------------------
(* State.                                                                  *)
(*   ds, ret, calls       one Dataset object, the value the latest step    *)
(*                        returned when it was a direct call of            *)
(*                        calculate_archive_score, and the number of       *)
(*                        calls of it since the fields were last assigned  *)
(*   datasets, dsResult   DatasetRepository._datasets and the value        *)
(*                        returned by the latest repository/service call,  *)
(*                        held until the caller drops it                   *)
(*   provenance           history: how the archive_score of datasets[i]    *)
(*                        got its value: "default" (the constructor        *)
(*                        default), "supplied" (passed to the constructor) *)
(*                        or "computed" (by calculate_archive_score)       *)
(*   incidents, now,      SecurityIncidentRepository._incidents, the clock *)
(*   incResult            read by datetime.now(), and the latest result of *)
(*                        SecurityIncidentService                          *)
(*   tickets, tkResult    ITTicketRepository._tickets and the latest       *)
(*                        result of ITTicketService                        *)
(*   ticketDb             the ticket_id column of the rows of the database *)
(*                        table it_tickets, in rowid order                 *)

VARIABLES ds, ret, calls, datasets, provenance, dsResult, incidents, now, incResult,
          tickets, tkResult, ticketDb,
          use_database, storage, usersTable, registered, usResult,
          incidentDb,
          objs, listHeap, handle, assigned, gaResult,
          session_state, rendered

vars == <<ds, ret, calls, datasets, provenance, dsResult, incidents, now, incResult,
          tickets, tkResult, ticketDb,
          use_database, storage, usersTable, registered, usResult,
          incidentDb,
          objs, listHeap, handle, assigned, gaResult,
          session_state, rendered>>

scoreVars == <<ds, ret, calls>>

repoVars == <<datasets, provenance, dsResult>>

incVars == <<incidents, now, incResult>>

tkVars == <<tickets, tkResult, ticketDb>>

usVars == <<use_database, storage, usersTable, registered, usResult>>

\* the variables of the dataset, incident and ticket models
coreVars == <<scoreVars, repoVars, incVars, tkVars>>

\* the variables of the user, loader, page and session models
pageVars == <<incidentDb>>

aliasVars == <<objs, listHeap, handle, assigned, gaResult>>

sessVars == <<session_state, rendered>>

extVars == <<usVars, pageVars, aliasVars, sessVars>>

----------------------------------------------------------------------------
(* Dataset (models/dataset.py).  size_gb is a float holding a whole number *)
(* of GB, which binary64 represents exactly; it is stored as that integer  *)
(* and converted with FromInt where the code does float arithmetic.  The   *)
(* fields name, department, rows_millions, upload_date and last_accessed   *)
(* are read by none of the operations below and are left out.              *)

\* the float literals of the score expression: 0.4, 0.3, 0.2, 0.1 are the
\* doubles nearest to 4/10, 3/10, 2/10, 1/10
F0_4 == FDivInt(FromInt(4), 10)

F0_3 == FDivInt(FromInt(3), 10)

F0_2 == FDivInt(FromInt(2), 10)

F0_1 == FDivInt(FromInt(1), 10)

FOne == FromInt(1)

F100 == FromInt(100)

Clamp0To100(raw) ==
    IF FLess(F100, raw) THEN F100
    ELSE IF FLess(raw, FZero) THEN FZero
    ELSE raw

\* the score formula with the result kept inside [0, 100]
ArchiveScoreClamped(days, freq, deps, size) ==
    Only({Clamp0To100(raw) : raw \in {
        FMul(
          FAdd(FAdd(FAdd(
              FMul(FDivInt(FromInt(days), 180), F0_4),
              FMul(FSub(FOne, FDivInt(FromInt(freq), 50)), F0_3)),
              FMul(FSub(FOne, FDivInt(FromInt(deps), 5)), F0_2)),
              FMul(FDivInt(FromInt(size), 500), F0_1)),
          F100)}})

\* the score formula with the access and dependency terms not inverted
ArchiveScoreNotInverted(days, freq, deps, size) ==
    FMul(
      FAdd(FAdd(FAdd(
          FMul(FDivInt(FromInt(days), 180), F0_4),
          FMul(FDivInt(FromInt(freq), 50), F0_3)),
          FMul(FDivInt(FromInt(deps), 5), F0_2)),
          FMul(FDivInt(FromInt(size), 500), F0_1)),
      F100)

\* the expression of calculate_archive_score, in the code's operand order
ArchiveScoreValue(days, freq, deps, size) ==
    FMul(
      FAdd(FAdd(FAdd(
          FMul(FDivInt(FromInt(days), 180), F0_4),
          FMul(FSub(FOne, FDivInt(FromInt(freq), 50)), F0_3)),
          FMul(FSub(FOne, FDivInt(FromInt(deps), 5)), F0_2)),
          FMul(FDivInt(FromInt(size), 500), F0_1)),
      F100)

ScoreOf(d) ==
    ArchiveScoreValue(d.days_since_access, d.access_frequency_30d, d.dependencies, d.size_gb)

\* Dataset.__post_init__: TRUE when construction raises no ValueError
DatasetPostInit(d) ==
    /\ d.quality_status \in {"Passed", "Failed", "Pending"}
    /\ ~(d.size_gb < 0)

\* Dataset(...): the dataclass constructor; archive_score defaults to None
NewDataset(size, days, quality, deps, freq, cost, score) ==
    [size_gb                |-> size,
     days_since_access      |-> days,
     quality_status         |-> quality,
     dependencies           |-> deps,
     access_frequency_30d   |-> freq,
     storage_cost_per_month |-> cost,
     archive_score          |-> score]

\* calculate_archive_score storing the sum of the old and the new score
AccumulateArchiveScore(d) ==
    Only({[obj |-> [d EXCEPT !.archive_score = <<total>>], ret |-> total] :
          total \in {IF d.archive_score = << >> THEN ScoreOf(d)
                     ELSE FAdd(d.archive_score[1], ScoreOf(d))}})

\* Dataset.calculate_archive_score: the object after the call and the value returned
calculate_archive_score(d) ==
    Only({[obj |-> [d EXCEPT !.archive_score = Some(score)], ret |-> score] :
          score \in {ScoreOf(d)}})

\* round(size_gb * 0.023, 2), the storage cost every handler derives from the size
StorageCost(size) == FRound2(FMul(FromInt(size), FDivInt(FromInt(23), 1000)))

----------------------------------------------------------------------------
(* One Dataset object: construction, calculate_archive_score and the       *)
(* in-place assignment of the update form (pages/2_DataScience.py).        *)

MaxCalls == 3

\* <<days_since_access, access_frequency_30d, dependencies, size_gb>>
ScoreInputs ==
    {<<180, 0, 0, 500>>, <<0, 0, 0, 0>>, <<0, 50, 5, 0>>, <<0, 100, 10, 0>>,
     <<900, 0, 0, 5000>>, <<90, 25, 2, 100>>, <<-30, 3, 1, 50>>, <<181, 0, 0, 500>>}

QualityVals == {"Passed", "Failed", "Pending"}

\* the fields keep their values (archive_score aside)
SameFields(d, e) ==
    /\ d.size_gb = e.size_gb
    /\ d.days_since_access = e.days_since_access
    /\ d.quality_status = e.quality_status
    /\ d.dependencies = e.dependencies
    /\ d.access_frequency_30d = e.access_frequency_30d
    /\ d.storage_cost_per_month = e.storage_cost_per_month

\* the assignments of the update form without the calculate_archive_score() call
UpdateWithoutRescore(d, size, days, quality, deps, freq) ==
    [d EXCEPT !.size_gb = size,
              !.quality_status = quality,
              !.dependencies = deps,
              !.access_frequency_30d = freq,
              !.days_since_access = days,
              !.storage_cost_per_month = StorageCost(size)]

\* the assignments of the update form, which end with calculate_archive_score()
UpdateInPlace(d, size, days, quality, deps, freq) ==
    calculate_archive_score(
        [d EXCEPT !.size_gb = size,
                  !.quality_status = quality,
                  !.dependencies = deps,
                  !.access_frequency_30d = freq,
                  !.days_since_access = days,
                  !.storage_cost_per_month = StorageCost(size)]).obj

IdleRepo ==
    /\ datasets = << >>
    /\ provenance = << >>
    /\ dsResult = [op |-> "none"]

IdleIncidents ==
    /\ incidents = << >>
    /\ now = 0
    /\ incResult = [op |-> "none"]

IdleTickets ==
    /\ tickets = << >>
    /\ tkResult = [op |-> "none"]
    /\ ticketDb = << >>

IdleUsers ==
    /\ use_database = FALSE
    /\ storage = << >>
    /\ usersTable = << >>
    /\ registered = {}
    /\ usResult = [op |-> "none"]

\* a repository without tickets, no list fetched from it
IdleAlias ==
    /\ objs = << >>
    /\ listHeap = << << >> >>
    /\ handle = 0
    /\ assigned = << >>
    /\ gaResult = [op |-> "none"]

\* the session state a first run of a script sets, nothing rendered yet
IdleSession ==
    /\ session_state = [logged_in |-> FALSE, username |-> "", user_role |-> ""]
    /\ rendered = [page |-> "none", content |-> FALSE, event |-> "none"]

IdleExt ==
    /\ IdleUsers
    /\ incidentDb = << >>
    /\ IdleAlias
    /\ IdleSession

IdleScore ==
    /\ ds = NewDataset(0, 0, "Passed", 0, 0, FZero, None)
    /\ ret = None
    /\ calls = 0

InitScore ==
    /\ IdleExt
    /\ \E k \in ScoreInputs, quality \in QualityVals :
          /\ DatasetPostInit(NewDataset(k[4], k[1], quality, k[3], k[2], FZero, None))
          /\ ds = NewDataset(k[4], k[1], quality, k[3], k[2], StorageCost(k[4]), None)
    /\ ret = None
    /\ calls = 0
    /\ IdleRepo
    /\ IdleIncidents
    /\ IdleTickets

\* a direct call of ds.calculate_archive_score()
CalculateArchiveScore ==
    /\ calls < MaxCalls
    /\ \E r \in {calculate_archive_score(ds)} :
          /\ ds' = r.obj
          /\ ret' = Some(r.ret)
    /\ calls' = calls + 1
    /\ UNCHANGED <<repoVars, incVars, tkVars, extVars>>

\* the update form applied to ds; the value its calculate_archive_score() returns is dropped
UpdateDatasetObject ==
    /\ calls < MaxCalls
    /\ \E k \in ScoreInputs, quality \in QualityVals :
          ds' = UpdateInPlace(ds, k[4], k[1], quality, k[3], k[2])
    /\ ret' = None
    /\ calls' = 1
    /\ UNCHANGED <<repoVars, incVars, tkVars, extVars>>

NextScore == CalculateArchiveScore \/ UpdateDatasetObject

SpecScore == InitScore /\ [][NextScore]_vars

----------------------------------------------------------------------------
(* Properties of calculate_archive_score, checked under SpecScore.         *)

\* the formula as the specification writes it: 100 * (0.4*(days/180) +
\* 0.3*(1 - freq/50) + 0.2*(1 - deps/5) + 0.1*(size/500)), in binary64
WrittenFormula(days, freq, deps, size) ==
    FMul(FromInt(100),
         FAdd(FAdd(FAdd(
             FMul(FDivInt(FromInt(4), 10), FDivInt(FromInt(days), 180)),
             FMul(FDivInt(FromInt(3), 10), FSub(FromInt(1), FDivInt(FromInt(freq), 50)))),
             FMul(FDivInt(FromInt(2), 10), FSub(FromInt(1), FDivInt(FromInt(deps), 5)))),
             FMul(FDivInt(FromInt(1), 10), FDivInt(FromInt(size), 500))))

\* 450 times the formula in exact arithmetic, an integer
Exact450(d) ==
    22500 + 100 * d.days_since_access - 270 * d.access_frequency_30d
          - 1800 * d.dependencies + 9 * d.size_gb

\* 100 - 2^-46, the largest double below 100 (prints as 99.99999999999999)
JustBelow100 == FSub(FromInt(100), [neg |-> FALSE, man |-> BShl(<<1>>, 52), exp |-> -98])

IsExample(d) ==
    /\ d.days_since_access = 180
    /\ d.access_frequency_30d = 0
    /\ d.dependencies = 0
    /\ d.size_gb = 500

IsAllZero(d) ==
    /\ d.days_since_access = 0
    /\ d.access_frequency_30d = 0
    /\ d.dependencies = 0
    /\ d.size_gb = 0

\* what every reading of C1 shares: the value returned is the written formula
\* evaluated in binary64, and it is not clamped: where the exact value is
\* at least 101 the result exceeds 100, where it is at most -1 the result is
\* negative
ReturnsFormulaUnclamped ==
    ret # None =>
        /\ ret[1] = WrittenFormula(ds.days_since_access, ds.access_frequency_30d,
                                   ds.dependencies, ds.size_gb)
        /\ Exact450(ds) >= 45450 => FLess(FromInt(100), ret[1])
        /\ Exact450(ds) <= -450 => FLess(ret[1], FZero)

\* C1 (as amended): calculate_archive_score returns the binary64 value of the
\* written formula with no clamping (scores above 100 and below 0 occur), and
\* days_since_access=180, access_frequency_30d=0, dependencies=0, size_gb=500
\* yields 99.99999999999999, the largest double below 100.
C1_FormulaUnclampedExampleBelow100 ==
    /\ ReturnsFormulaUnclamped
    /\ (ret # None /\ IsExample(ds)) => ret[1] = JustBelow100

\* C1 witness: calculate_archive_score has returned for the example inputs.
C1_ExampleScored == ret # None /\ IsExample(ds)

\* C1 (as stated): the formula with no clamping, and the example inputs yield
\* exactly 100.
C1_ExampleYieldsExactly100 ==
    /\ ReturnsFormulaUnclamped
    /\ (ret # None /\ IsExample(ds)) => ret[1] = FromInt(100)

\* C2 (as amended): for all-zero inputs calculate_archive_score returns 50
\* (the access and dependency terms contribute 0.3 + 0.2 when their inputs
\* are 0).
C2_AllZeroYields50 == (ret # None /\ IsAllZero(ds)) => ret[1] = FromInt(50)

\* C2 witness: calculate_archive_score has returned for all-zero inputs.
C2_AllZeroScored == ret # None /\ IsAllZero(ds)

\* C2 (as stated): for all-zero inputs calculate_archive_score returns 0.
C2_AllZeroYields0 == (ret # None /\ IsAllZero(ds)) => ret[1] = FZero

\* C3: calculate_archive_score is idempotent: a call made when the score of the
\* current fields is already stored returns that stored value (so two
\* successive calls return the same value), leaves the stored archive_score
\* as it was, and no call writes a field other than archive_score.
C3_Idempotent ==
    [][ret' # None =>
          /\ SameFields(ds, ds')
          /\ ds'.archive_score = ret'
          /\ calls >= 1 =>
                /\ ret' = ds.archive_score
                /\ ds'.archive_score = ds.archive_score
                /\ ret # None => ret' = ret]_vars

\* C3 witness: a call has returned on an object whose score was already stored.
C3_CalledTwice == calls >= 2 /\ ret # None

----------------------------------------------------------------------------
(* DatasetRepository and DatasetService over an in-memory list             *)
(* (repositories/dataset_repository.py, services/dataset_service.py) and   *)
(* the add, update and delete handlers of pages/2_DataScience.py.  A       *)
(* result names datasets by their positions in the list.  Two objects of   *)
(* the list are told apart by position only: the name field is left out.   *)

MaxDatasets == 2

\* <<days_since_access, access_frequency_30d, dependencies, size_gb>>
RepoInputs == {<<180, 0, 0, 500>>, <<90, 25, 2, 100>>, <<0, 50, 5, 0>>}

LimitVals == -1 .. MaxDatasets + 1

Min(a, b) == IF a < b THEN a ELSE b

Max(a, b) == IF a > b THEN a ELSE b

\* seq[:limit]
SliceTo(seq, limit) ==
    SubSeq(seq, 1, IF limit >= 0 THEN Min(limit, Len(seq)) ELSE Max(Len(seq) + limit, 0))

\* sorted(...)[::-1] of an ascending sort: the positions 1..n in descending key
\* order with equal keys in reverse list order; <<j, i>> \in gt: key j > key i
ReversedSortAsc(n, gt) ==
    [p \in 1..n |->
        CHOOSE i \in 1..n :
            Cardinality({j \in 1..n : <<j, i>> \in gt
                                       \/ (j > i /\ <<i, j>> \notin gt)}) + 1 = p]

\* sorted(..., reverse=True): the positions 1..n in descending key order, equal
\* keys in list order (the sort is stable); <<j, i>> \in gt: key j > key i
SortedReverse(n, gt) ==
    [p \in 1..n |->
        CHOOSE i \in 1..n :
            Cardinality({j \in 1..n : <<j, i>> \in gt
                                       \/ (j < i /\ <<i, j>> \notin gt)}) + 1 = p]

\* lambda x: x.archive_score or 0
ScoreKey(d) ==
    IF d.archive_score = None \/ IsZero(d.archive_score[1]) THEN FZero
    ELSE d.archive_score[1]

ScoreKeyGreater(s) ==
    {jk \in (1..Len(s)) \X (1..Len(s)) : FLess(ScoreKey(s[jk[2]]), ScoreKey(s[jk[1]]))}

\* get_archive_candidates scoring every dataset anew
RescoreAllCandidates(s, limit) ==
    Only({[datasets |-> scored,
           ret |-> SliceTo(SortedReverse(Len(scored), ScoreKeyGreater(scored)), limit)] :
          scored \in {[i \in 1..Len(s) |-> calculate_archive_score(s[i]).obj]}})

\* DatasetRepository.get_archive_candidates: the list after the call and the
\* positions returned
get_archive_candidates(s, limit) ==
    Only({[datasets |-> scored,
           ret |-> SliceTo(SortedReverse(Len(scored), ScoreKeyGreater(scored)), limit)] :
          scored \in {[i \in 1..Len(s) |->
                          IF s[i].archive_score = None
                          THEN calculate_archive_score(s[i]).obj
                          ELSE s[i]]}})

\* sum(f(ds) for ds in candidates): float additions from the left, from 0
RECURSIVE SumSize(_, _)
SumSize(s, idx) ==
    IF idx = << >> THEN FZero
    ELSE FAdd(SumSize(s, SubSeq(idx, 1, Len(idx) - 1)), FromInt(s[idx[Len(idx)]].size_gb))

RECURSIVE SumCost(_, _)
SumCost(s, idx) ==
    IF idx = << >> THEN FZero
    ELSE FAdd(SumCost(s, SubSeq(idx, 1, Len(idx) - 1)), s[idx[Len(idx)]].storage_cost_per_month)

\* the dict get_archiving_recommendations builds for the candidates cand
RecommendationsDict(s, cand) ==
    IF cand = << >>
    THEN [candidates |-> << >>,
          potential_savings_gb |-> FZero,
          potential_cost_savings_monthly |-> FZero]
    ELSE Only({[candidates |-> cand,
                potential_savings_gb |-> SumSize(s, cand),
                potential_cost_savings_monthly |-> total_cost,
                potential_cost_savings_annual |-> FMul(total_cost, FromInt(12))] :
               total_cost \in {SumCost(s, cand)}})

\* get_archiving_recommendations that sorts the list of the repository itself
RecommendationsSortInPlace(s, limit) ==
    Only({[datasets |-> [i \in 1..Len(r.datasets) |->
                            r.datasets[SortedReverse(Len(r.datasets),
                                                     ScoreKeyGreater(r.datasets))[i]]],
           ret |-> RecommendationsDict(r.datasets, r.ret)] :
          r \in {get_archive_candidates(s, limit)}})

\* DatasetService.get_archiving_recommendations: the list after the call and
\* the dict returned
get_archiving_recommendations(s, limit) ==
    Only({[datasets |-> r.datasets, ret |-> RecommendationsDict(r.datasets, r.ret)] :
          r \in {get_archive_candidates(s, limit)}})

\* Dataset.to_dict, the entries from_dict reads
to_dict(d) ==
    [size |-> d.size_gb,
     days |-> d.days_since_access,
     quality |-> d.quality_status,
     deps |-> d.dependencies,
     freq |-> d.access_frequency_30d,
     cost |-> FRound2(d.storage_cost_per_month),
     score |-> IF d.archive_score = None \/ IsZero(d.archive_score[1]) THEN None
               ELSE Some(FRound2(d.archive_score[1]))]

\* Dataset.from_dict; data.get("Archive Score") is None when the entry is absent
from_dict(data) ==
    NewDataset(data.size, data.days, data.quality, data.deps, data.freq, data.cost,
               IF "score" \in DOMAIN data THEN data.score ELSE None)

\* list.remove(x): without the first element equal to x
RECURSIVE FirstIndex(_, _, _)
FirstIndex(s, x, i) == IF s[i] = x THEN i ELSE FirstIndex(s, x, i + 1)

RemoveAt(s, i) == SubSeq(s, 1, i - 1) \o SubSeq(s, i + 1, Len(s))

NoResult == [op |-> "none"]

Idle == dsResult = NoResult

InitRepo ==
    /\ IdleExt
    /\ IdleRepo
    /\ IdleScore
    /\ IdleTickets
    /\ IdleIncidents

\* the add form: Dataset(...), calculate_archive_score(), repository.add
AddDatasetForm ==
    /\ Idle
    /\ Len(datasets) < MaxDatasets
    /\ \E k \in RepoInputs, quality \in {"Passed"} :
          /\ DatasetPostInit(NewDataset(k[4], k[1], quality, k[3], k[2], FZero, None))
          /\ datasets' = Append(datasets, calculate_archive_score(
                 NewDataset(k[4], k[1], quality, k[3], k[2], StorageCost(k[4]), None)).obj)
    /\ provenance' = Append(provenance, "computed")
    /\ UNCHANGED <<dsResult, scoreVars, incVars, tkVars, extVars>>

\* repository.add(Dataset.from_dict(data)) for a dict with no "Archive Score"
AddFromDict ==
    /\ Idle
    /\ Len(datasets) < MaxDatasets
    /\ \E k \in RepoInputs :
          datasets' = Append(datasets,
              from_dict([size |-> k[4], days |-> k[1], quality |-> "Passed",
                         deps |-> k[3], freq |-> k[2], cost |-> StorageCost(k[4])]))
    /\ provenance' = Append(provenance, "default")
    /\ UNCHANGED <<dsResult, scoreVars, incVars, tkVars, extVars>>

\* repository.add(Dataset.from_dict(datasets[i].to_dict())): a copy restored
\* from the exported dict
AddRoundTrip(i) ==
    /\ Idle
    /\ Len(datasets) < MaxDatasets
    /\ \E d \in {from_dict(to_dict(datasets[i]))} :
          /\ datasets' = Append(datasets, d)
          /\ provenance' = Append(provenance,
                                  IF d.archive_score = None THEN "default" ELSE "supplied")
    /\ UNCHANGED <<dsResult, scoreVars, incVars, tkVars, extVars>>

\* the update form applied to datasets[i]
UpdateDatasetForm(i) ==
    /\ Idle
    /\ \E k \in RepoInputs :
          datasets' = [datasets EXCEPT
                          ![i] = UpdateInPlace(datasets[i], k[4], k[1], "Passed", k[3], k[2])]
    /\ provenance' = [provenance EXCEPT ![i] = "computed"]
    /\ UNCHANGED <<dsResult, scoreVars, incVars, tkVars, extVars>>

\* the delete button on datasets[i]: repository._datasets.remove(selected_dataset)
DeleteDatasetForm(i) ==
    /\ Idle
    /\ \E j \in {FirstIndex(datasets, datasets[i], 1)} :
          /\ datasets' = RemoveAt(datasets, j)
          /\ provenance' = RemoveAt(provenance, j)
    /\ UNCHANGED <<dsResult, scoreVars, incVars, tkVars, extVars>>

\* datasets[i].calculate_archive_score() called directly
CalculateArchiveScoreAt(i) ==
    /\ Idle
    /\ datasets' = [datasets EXCEPT ![i] = calculate_archive_score(datasets[i]).obj]
    /\ provenance' = [provenance EXCEPT ![i] = "computed"]
    /\ UNCHANGED <<dsResult, scoreVars, incVars, tkVars, extVars>>

\* the provenance after a call that scores the datasets without a score
AfterLazyScoring(s, prov) ==
    [i \in 1..Len(s) |-> IF s[i].archive_score = None THEN "computed" ELSE prov[i]]

GetArchiveCandidates(limit) ==
    /\ Idle
    /\ \E r \in {get_archive_candidates(datasets, limit)} :
          /\ datasets' = r.datasets
          /\ dsResult' = [op |-> "get_archive_candidates", limit |-> limit, ret |-> r.ret]
    /\ provenance' = AfterLazyScoring(datasets, provenance)
    /\ UNCHANGED <<scoreVars, incVars, tkVars, extVars>>

GetArchivingRecommendations(limit) ==
    /\ Idle
    /\ \E r \in {get_archiving_recommendations(datasets, limit)} :
          /\ datasets' = r.datasets
          /\ dsResult' = [op |-> "get_archiving_recommendations", limit |-> limit,
                          ret |-> r.ret]
    /\ provenance' = AfterLazyScoring(datasets, provenance)
    /\ UNCHANGED <<scoreVars, incVars, tkVars, extVars>>

\* the caller is done with the value returned
DropResult ==
    /\ ~Idle
    /\ dsResult' = NoResult
    /\ UNCHANGED <<datasets, provenance, scoreVars, incVars, tkVars, extVars>>

NextRepo ==
    \/ AddDatasetForm
    \/ AddFromDict
    \/ \E i \in 1..Len(datasets) : AddRoundTrip(i)
    \/ \E i \in 1..Len(datasets) : UpdateDatasetForm(i)
    \/ \E i \in 1..Len(datasets) : DeleteDatasetForm(i)
    \/ \E i \in 1..Len(datasets) : CalculateArchiveScoreAt(i)
    \/ \E limit \in LimitVals : GetArchiveCandidates(limit)
    \/ \E limit \in LimitVals : GetArchivingRecommendations(limit)
    \/ DropResult

SpecRepo == InitRepo /\ [][NextRepo]_vars

----------------------------------------------------------------------------
(* Properties of the repository and the service, checked under SpecRepo.   *)

StoredScore(i) == datasets[i].archive_score

\* the stored archive_score is the formula applied to the current fields
ScoreIsCurrent(i) == StoredScore(i) = Some(ScoreOf(datasets[i]))

\* C4 (as amended): a Dataset built without an archive_score argument has
\* archive_score None until calculate_archive_score has run on it (directly,
\* in get_archive_candidates, in the add form or in the update form), and an
\* archive_score that a computation stored equals the formula applied to the
\* current fields.  The constructor and from_dict store a supplied
\* archive_score as it is; such a value stays until the next computation.
C4_NoneUntilComputedThenCurrent ==
    \A i \in 1..Len(datasets) :
        /\ provenance[i] = "default" => StoredScore(i) = None
        /\ provenance[i] = "computed" => ScoreIsCurrent(i)
        /\ provenance[i] = "supplied" => StoredScore(i) # None

\* C4 witness: the list holds a dataset never scored and one whose score was
\* computed.
C4_DefaultAndComputed ==
    \E i, j \in 1..Len(datasets) :
        /\ provenance[i] = "default"
        /\ provenance[j] = "computed"
        /\ StoredScore(j) # None

\* C4 (as stated): archive_score is None until a score computation has run on
\* the dataset, and whenever it is not None it equals the formula applied to
\* the current fields.
C4_AlwaysNoneOrCurrent ==
    \A i \in 1..Len(datasets) :
        /\ provenance[i] # "computed" => StoredScore(i) = None
        /\ StoredScore(i) # None => ScoreIsCurrent(i)

CandidatesReturned == dsResult.op = "get_archive_candidates"

Returned(i) == \E p \in DOMAIN dsResult.ret : dsResult.ret[p] = i

\* dataset i goes before dataset j in descending score order, ties by position
GoesBefore(i, j) ==
    \/ FLess(StoredScore(j)[1], StoredScore(i)[1])
    \/ (StoredScore(i) = StoredScore(j) /\ i < j)

\* C5: get_archive_candidates(n), n >= 0, returns min(n, len) distinct
\* datasets in descending archive_score order, those of equal score in their
\* list order, and every dataset it leaves out has a lower score than each one
\* returned, or an equal score and a later position.
C5_TopByScoreStable ==
    (CandidatesReturned /\ dsResult.limit >= 0) =>
        /\ Len(dsResult.ret) = Min(dsResult.limit, Len(datasets))
        /\ \A p \in DOMAIN dsResult.ret : dsResult.ret[p] \in 1..Len(datasets)
        /\ \A p, q \in DOMAIN dsResult.ret :
              p < q => GoesBefore(dsResult.ret[p], dsResult.ret[q])
        /\ \A p \in DOMAIN dsResult.ret : \A i \in 1..Len(datasets) :
              ~Returned(i) => GoesBefore(dsResult.ret[p], i)

\* C5 witness: get_archive_candidates(1) has returned on a list of two
\* datasets of equal score.
C5_TieCut ==
    /\ CandidatesReturned
    /\ dsResult.limit = 1
    /\ Len(datasets) = 2
    /\ StoredScore(1) = StoredScore(2)

\* C6: a call of get_archive_candidates leaves every dataset of the list with
\* an archive_score, and a dataset that had one before the call keeps exactly
\* that value.
C6_AllScoredOldKept ==
    [][(Idle /\ dsResult'.op = "get_archive_candidates") =>
          /\ Len(datasets') = Len(datasets)
          /\ \A i \in 1..Len(datasets) :
                /\ datasets'[i].archive_score # None
                /\ datasets[i].archive_score # None =>
                      datasets'[i].archive_score = datasets[i].archive_score]_vars

\* C6 witness: get_archive_candidates has returned on a list that holds a
\* dataset whose supplied score differs from the formula, next to one it scored.
C6_SuppliedKept ==
    /\ CandidatesReturned
    /\ \E i, j \in 1..Len(datasets) :
          /\ provenance[i] = "supplied"
          /\ ~ScoreIsCurrent(i)
          /\ provenance[j] = "computed"

\* C9 (as stated): get_archiving_recommendations returns zero candidates and
\* zero savings for an empty list; otherwise potential_savings_gb and
\* potential_cost_savings_monthly are the sums over the returned candidates
\* and potential_cost_savings_annual is the monthly figure times 12.
C9_SumsOverCandidatesAnnual ==
    dsResult.op = "get_archiving_recommendations" =>
        /\ datasets = << >> =>
              /\ dsResult.ret.candidates = << >>
              /\ dsResult.ret.potential_savings_gb = FZero
              /\ dsResult.ret.potential_cost_savings_monthly = FZero
        /\ datasets # << >> =>
              /\ dsResult.ret.potential_savings_gb =
                    SumSize(datasets, dsResult.ret.candidates)
              /\ dsResult.ret.potential_cost_savings_monthly =
                    SumCost(datasets, dsResult.ret.candidates)
              /\ "potential_cost_savings_annual" \in DOMAIN dsResult.ret
              /\ dsResult.ret.potential_cost_savings_annual =
                    FMul(dsResult.ret.potential_cost_savings_monthly, FromInt(12))

----------------------------------------------------------------------------
(* get_top_consumers and get_dependency_analysis read a repository built   *)
(* from a list of datasets: DatasetRepository(datasets, use_database=False) *)

MaxSnapshot == 4

SizeVals == {50, 100, 500}

DepsVals == {-1, 0, 1, 2, 3, 7}

\* the lists of at most n elements of elems
ListsUpTo(elems, n) == UNION {[1..k -> elems] : k \in 0..n}

SizeGreater(s) ==
    {jk \in (1..Len(s)) \X (1..Len(s)) : s[jk[1]].size_gb > s[jk[2]].size_gb}

\* get_top_consumers with sorted(...)[::-1] for sorted(..., reverse=True)
TopConsumersUnstable(s, limit) ==
    SliceTo(ReversedSortAsc(Len(s), SizeGreater(s)), limit)

\* DatasetRepository.get_top_consumers: the positions returned
get_top_consumers(s, limit) ==
    SliceTo(SortedReverse(Len(s), SizeGreater(s)), limit)

InitTop ==
    /\ IdleExt
    /\ datasets \in ListsUpTo({NewDataset(size, 0, "Passed", 0, 0, FZero, None) :
                                   size \in SizeVals}, MaxSnapshot)
    /\ provenance = [i \in 1..Len(datasets) |-> "default"]
    /\ dsResult = NoResult
    /\ IdleScore
    /\ IdleTickets
    /\ IdleIncidents

GetTopConsumers(limit) ==
    /\ Idle
    /\ dsResult' = [op |-> "get_top_consumers", limit |-> limit,
                    ret |-> get_top_consumers(datasets, limit)]
    /\ UNCHANGED <<datasets, provenance, scoreVars, incVars, tkVars, extVars>>

NextTop ==
    \/ \E limit \in -1 .. MaxSnapshot + 1 : GetTopConsumers(limit)
    \/ DropResult

SpecTop == InitTop /\ [][NextTop]_vars

DepsGreater(s) ==
    {jk \in (1..Len(s)) \X (1..Len(s)) : s[jk[1]].dependencies > s[jk[2]].dependencies}

\* the risk loop with "> 3" for ">= 3"
RECURSIVE RiskLevelsAbove3(_)
RiskLevelsAbove3(s) ==
    IF s = << >> THEN [High |-> 0, Medium |-> 0, Low |-> 0]
    ELSE Only({IF s[Len(s)].dependencies > 3 THEN [r EXCEPT !.High = @ + 1]
               ELSE IF s[Len(s)].dependencies >= 1 THEN [r EXCEPT !.Medium = @ + 1]
               ELSE [r EXCEPT !.Low = @ + 1] :
               r \in {RiskLevelsAbove3(SubSeq(s, 1, Len(s) - 1))}})

\* the risk loop of get_dependency_analysis: the counters after the datasets of s
RECURSIVE RiskLevels(_)
RiskLevels(s) ==
    IF s = << >> THEN [High |-> 0, Medium |-> 0, Low |-> 0]
    ELSE Only({IF s[Len(s)].dependencies >= 3 THEN [r EXCEPT !.High = @ + 1]
               ELSE IF s[Len(s)].dependencies >= 1 THEN [r EXCEPT !.Medium = @ + 1]
               ELSE [r EXCEPT !.Low = @ + 1] :
               r \in {RiskLevels(SubSeq(s, 1, Len(s) - 1))}})

\* DatasetService.get_dependency_analysis: the dict returned
get_dependency_analysis(s) ==
    [high_dependency_datasets |-> SliceTo(SortedReverse(Len(s), DepsGreater(s)), 5),
     risk_levels |-> RiskLevels(s)]

InitDeps ==
    /\ IdleExt
    /\ datasets \in ListsUpTo({NewDataset(100, 0, "Passed", deps, 0, FZero, None) :
                                   deps \in DepsVals}, MaxSnapshot - 1)
    /\ provenance = [i \in 1..Len(datasets) |-> "default"]
    /\ dsResult = NoResult
    /\ IdleScore
    /\ IdleTickets
    /\ IdleIncidents

GetDependencyAnalysis ==
    /\ Idle
    /\ dsResult' = [op |-> "get_dependency_analysis",
                    ret |-> get_dependency_analysis(datasets)]
    /\ UNCHANGED <<datasets, provenance, scoreVars, incVars, tkVars, extVars>>

NextDeps == GetDependencyAnalysis \/ DropResult

SpecDeps == InitDeps /\ [][NextDeps]_vars

----------------------------------------------------------------------------
(* Properties of get_top_consumers (SpecTop) and get_dependency_analysis   *)
(* (SpecDeps).                                                             *)

SizesOf(s) == [i \in 1..Len(s) |-> s[i].size_gb]

\* dataset i goes before dataset j in descending size order, ties by position
LargerFirst(i, j) ==
    \/ datasets[i].size_gb > datasets[j].size_gb
    \/ (datasets[i].size_gb = datasets[j].size_gb /\ i < j)

\* C7: get_top_consumers(n), n >= 0, returns min(n, len) datasets in
\* descending size_gb order, equal sizes in list order, none left out being
\* larger than (or as large as and earlier than) one returned; for the sizes
\* [500, 100, 500, 50], get_top_consumers(2) returns the first and the third
\* dataset, in that order.
C7_TopConsumersStable ==
    (dsResult.op = "get_top_consumers" /\ dsResult.limit >= 0) =>
        /\ Len(dsResult.ret) = Min(dsResult.limit, Len(datasets))
        /\ \A p \in DOMAIN dsResult.ret : dsResult.ret[p] \in 1..Len(datasets)
        /\ \A p, q \in DOMAIN dsResult.ret :
              p < q => LargerFirst(dsResult.ret[p], dsResult.ret[q])
        /\ \A p \in DOMAIN dsResult.ret : \A i \in 1..Len(datasets) :
              ~Returned(i) => LargerFirst(dsResult.ret[p], i)
        /\ (SizesOf(datasets) = <<500, 100, 500, 50>> /\ dsResult.limit = 2) =>
              dsResult.ret = <<1, 3>>

\* C7 witness: get_top_consumers(2) has returned for the sizes [500, 100, 500, 50].
C7_ExampleReturned ==
    /\ dsResult.op = "get_top_consumers"
    /\ dsResult.limit = 2
    /\ SizesOf(datasets) = <<500, 100, 500, 50>>

\* C8: get_dependency_analysis counts every dataset of the list in exactly one
\* bucket: High counts those with dependencies >= 3, Medium those with
\* 1 <= dependencies < 3, Low those with dependencies < 1 (dependencies = 0
\* among them), and
\* the three counts add up to the length of the list.
C8_RiskBucketsPartition ==
    dsResult.op = "get_dependency_analysis" =>
        /\ dsResult.ret.risk_levels.High =
              Cardinality({i \in 1..Len(datasets) : datasets[i].dependencies >= 3})
        /\ dsResult.ret.risk_levels.Medium =
              Cardinality({i \in 1..Len(datasets) :
                              1 <= datasets[i].dependencies /\ datasets[i].dependencies < 3})
        /\ dsResult.ret.risk_levels.Low =
              Cardinality({i \in 1..Len(datasets) : datasets[i].dependencies < 1})
        /\ dsResult.ret.risk_levels.High + dsResult.ret.risk_levels.Medium
              + dsResult.ret.risk_levels.Low = Len(datasets)

\* C8 witness: get_dependency_analysis has returned for a list with a dataset
\* in each bucket, the one of High with exactly 3 dependencies.
C8_EachBucketUsed ==
    /\ dsResult.op = "get_dependency_analysis"
    /\ \E i, j, k \in 1..Len(datasets) :
          /\ datasets[i].dependencies = 3
          /\ datasets[j].dependencies = 1
          /\ datasets[k].dependencies = 0

----------------------------------------------------------------------------
(* SecurityIncidentService.get_phishing_surge_analysis over the incidents  *)
(* of a SecurityIncidentRepository.  A datetime is a number of ticks; the  *)
(* clock `now` is what datetime.now() returns.                             *)

MaxIncidents == 2

MaxTick == 4

TicksPerDay == 2

DaysVals == {1, 2}

CategoryVals == {"Phishing", "Malware"}

\* timedelta(days=n)
timedelta(n) == n * TicksPerDay

\* __post_init__ without the test of the resolution time of a Resolved incident
IncidentPostInitNoTime(inc) ==
    /\ inc.severity \in {"High", "Medium", "Low"}
    /\ inc.status \in {"Unresolved", "In Progress", "Resolved"}

\* SecurityIncident.__post_init__: TRUE iff no ValueError is raised
IncidentPostInit(inc) ==
    /\ inc.severity \in {"High", "Medium", "Low"}
    /\ inc.status \in {"Unresolved", "In Progress", "Resolved"}
    /\ ~(inc.status = "Resolved" /\ inc.resolution_time_hours = None)

\* SecurityIncident(...): the dataclass constructor
NewIncident(date, category, severity, status, hours) ==
    [date                  |-> date,
     threat_category       |-> category,
     severity              |-> severity,
     status                |-> status,
     resolution_time_hours |-> hours]

\* the previous-window test with "<=" for "<" on its right edge
InPreviousClosed(inc, previous_date, recent_date) ==
    /\ inc.threat_category = "Phishing"
    /\ previous_date <= inc.date
    /\ inc.date <= recent_date

\* the condition of the recent_phishing comprehension
InRecent(inc, recent_date) ==
    /\ inc.threat_category = "Phishing"
    /\ inc.date >= recent_date

\* the condition of the previous_phishing comprehension
InPrevious(inc, previous_date, recent_date) ==
    /\ inc.threat_category = "Phishing"
    /\ previous_date <= inc.date
    /\ inc.date < recent_date

\* [i for i in positions of s if keep]: the positions of s in keep, in list order
RECURSIVE Positions(_, _)
Positions(n, keep) ==
    IF n = 0 THEN << >>
    ELSE IF n \in keep THEN Append(Positions(n - 1, keep), n)
    ELSE Positions(n - 1, keep)

\* surge_percentage with 0 reported when there is no previous incident
SurgePercentageZeroBase(recent_count, previous_count) ==
    IF previous_count = 0 THEN FZero
    ELSE FMul(FDivInt(FromInt(recent_count - previous_count), previous_count), F100)

\* ((recent_count - previous_count) / max(previous_count, 1)) * 100
SurgePercentage(recent_count, previous_count) ==
    FMul(FDivInt(FromInt(recent_count - previous_count), Max(previous_count, 1)), F100)

\* get_phishing_surge_analysis(days) called when datetime.now() is end_date:
\* the two comprehensions (as positions of all_incidents) and the dict returned
get_phishing_surge_analysis(s, end_date, days) ==
    LET recent_date   == end_date - timedelta(days)
        previous_date == end_date - timedelta(days * 2)
    IN  Only({[recent_phishing   |-> rp[1],
               previous_phishing |-> rp[2],
               ret |-> [recent_count     |-> Len(rp[1]),
                        previous_count   |-> Len(rp[2]),
                        surge_percentage |-> SurgePercentage(Len(rp[1]), Len(rp[2]))]] :
              rp \in {<<Positions(Len(s), {i \in 1..Len(s) : InRecent(s[i], recent_date)}),
                        Positions(Len(s), {i \in 1..Len(s) :
                                      InPrevious(s[i], previous_date, recent_date)})>>}})

NoIncResult == [op |-> "none"]

InitIncident ==
    /\ IdleExt
    /\ incidents = << >>
    /\ now = 0
    /\ incResult = NoIncResult
    /\ IdleScore
    /\ IdleTickets
    /\ IdleRepo

\* repository.add(SecurityIncident(...)) of an unresolved incident
AddIncident ==
    /\ incResult = NoIncResult
    /\ Len(incidents) < MaxIncidents
    /\ \E date \in 0..MaxTick, category \in CategoryVals :
          /\ IncidentPostInit(NewIncident(date, category, "High", "Unresolved", None))
          /\ incidents' = Append(incidents,
                                 NewIncident(date, category, "High", "Unresolved", None))
    /\ UNCHANGED <<now, incResult, scoreVars, repoVars, tkVars, extVars>>

\* time passes
Tick ==
    /\ incResult = NoIncResult
    /\ now < MaxTick
    /\ now' = now + 1
    /\ UNCHANGED <<incidents, incResult, scoreVars, repoVars, tkVars, extVars>>

GetPhishingSurgeAnalysis(days) ==
    /\ incResult = NoIncResult
    /\ \E r \in {get_phishing_surge_analysis(incidents, now, days)} :
          incResult' = [op |-> "get_phishing_surge_analysis", days |-> days,
                        end_date |-> now,
                        recent_phishing |-> r.recent_phishing,
                        previous_phishing |-> r.previous_phishing,
                        ret |-> r.ret]
    /\ UNCHANGED <<incidents, now, scoreVars, repoVars, tkVars, extVars>>

DropIncResult ==
    /\ incResult # NoIncResult
    /\ incResult' = NoIncResult
    /\ UNCHANGED <<incidents, now, scoreVars, repoVars, tkVars, extVars>>

NextIncident ==
    \/ AddIncident
    \/ Tick
    \/ \E days \in DaysVals : GetPhishingSurgeAnalysis(days)
    \/ DropIncResult

SpecIncident == InitIncident /\ [][NextIncident]_vars

----------------------------------------------------------------------------
(* Properties of get_phishing_surge_analysis (SpecIncident).               *)

Range(seq) == {seq[p] : p \in DOMAIN seq}

SurgeReturned == incResult.op = "get_phishing_surge_analysis"

\* incident i is a Phishing incident dated exactly end_date - timedelta(days)
OnBoundary(i) ==
    /\ incidents[i].threat_category = "Phishing"
    /\ incidents[i].date = incResult.end_date - timedelta(incResult.days)

\* C10: after get_phishing_surge_analysis(days), no incident is in both the
\* recent and the previous window, each incident is counted at most once in
\* each, the counts returned are the sizes of the windows, and a Phishing
\* incident dated exactly now - days is in the recent window and not in the
\* previous one.
C10_WindowsDisjointBoundaryRecent ==
    SurgeReturned =>
        /\ Range(incResult.recent_phishing) \cap Range(incResult.previous_phishing) = {}
        /\ incResult.ret.recent_count = Cardinality(Range(incResult.recent_phishing))
        /\ incResult.ret.previous_count = Cardinality(Range(incResult.previous_phishing))
        /\ \A i \in 1..Len(incidents) :
              OnBoundary(i) => /\ i \in Range(incResult.recent_phishing)
                               /\ i \notin Range(incResult.previous_phishing)

\* C10 witness: the analysis has returned with a Phishing incident dated
\* exactly now - days and another incident in the previous window.
C10_BoundaryIncident ==
    /\ SurgeReturned
    /\ \E i \in 1..Len(incidents) : OnBoundary(i)
    /\ incResult.previous_phishing # << >>

\* the Phishing incidents dated from lo to hi, both included
PhishingBetween(lo, hi) ==
    {i \in 1..Len(incidents) : /\ incidents[i].threat_category = "Phishing"
                               /\ lo <= incidents[i].date
                               /\ incidents[i].date <= hi}

\* C11 (as stated): recent_count is the number of Phishing incidents dated in
\* [now - days, now], previous_count the number dated in
\* [now - 2*days, now - days), and a Phishing incident dated before
\* now - 2*days or after now is in neither window.
C11_CountsOverClosedRecentWindow ==
    SurgeReturned =>
        /\ incResult.ret.recent_count =
              Cardinality(PhishingBetween(incResult.end_date - timedelta(incResult.days),
                                          incResult.end_date))
        /\ incResult.ret.previous_count =
              Cardinality(PhishingBetween(incResult.end_date - timedelta(incResult.days * 2),
                                          incResult.end_date - timedelta(incResult.days) - 1))
        /\ \A i \in 1..Len(incidents) :
              (\/ incidents[i].date < incResult.end_date - timedelta(incResult.days * 2)
               \/ incidents[i].date > incResult.end_date)
                 => /\ i \notin Range(incResult.recent_phishing)
                    /\ i \notin Range(incResult.previous_phishing)

----------------------------------------------------------------------------
(* get_phishing_surge_analysis over a repository built from a list of      *)
(* Phishing incidents dated one and two days ago:                          *)
(* SecurityIncidentRepository(incidents, use_database=False).              *)

MaxSurge == 5

InitSurge ==
    /\ IdleExt
    /\ now = timedelta(2)
    /\ incidents \in ListsUpTo({NewIncident(date, "Phishing", "High", "Unresolved", None) :
                                    date \in {0, timedelta(1)}}, MaxSurge)
    /\ incResult = NoIncResult
    /\ IdleScore
    /\ IdleTickets
    /\ IdleRepo

NextSurge ==
    \/ \E days \in DaysVals : GetPhishingSurgeAnalysis(days)
    \/ DropIncResult

SpecSurge == InitSurge /\ [][NextSurge]_vars

\* C12: get_phishing_surge_analysis returns surge_percentage =
\* (recent_count - previous_count) / max(previous_count, 1) * 100 in float
\* arithmetic, the divisor being at least 1; its sign is that of
\* recent_count - previous_count, and when previous_count is 0 it is
\* recent_count * 100.
C12_SurgePercentageFormula ==
    SurgeReturned =>
        LET rc == incResult.ret.recent_count
            pc == incResult.ret.previous_count
            sp == incResult.ret.surge_percentage
        IN  /\ Max(pc, 1) >= 1
            /\ sp = FMul(FDivInt(FromInt(rc - pc), Max(pc, 1)), F100)
            /\ IsZero(sp) <=> rc = pc
            /\ sp.neg <=> rc < pc
            /\ pc = 0 => sp = FromInt(rc * 100)

\* C12 witness: the analysis has returned with no previous incident and
\* several recent ones.
C12_NoPreviousIncident ==
    /\ SurgeReturned
    /\ incResult.ret.previous_count = 0
    /\ incResult.ret.recent_count >= 2

----------------------------------------------------------------------------
(* SecurityIncidentService.get_resolution_bottleneck over a repository     *)
(* built from a list of incidents.                                         *)

MaxResolved == 3

\* (status, resolution_time_hours) of the incidents of the lists
StatusHours ==
    {<<"Resolved", Some(FromInt(0))>>, <<"Resolved", Some(FromInt(10))>>,
     <<"Resolved", Some(FromInt(20))>>, <<"In Progress", Some(FromInt(30))>>,
     <<"Unresolved", None>>}

\* bool(x) of an Optional[float]: None and 0.0 are falsy
Truthy(opt) == opt # None /\ ~IsZero(opt[1])

\* get_resolved without the status test
GetResolvedAnyStatus(s) == s

\* SecurityIncidentRepository.get_resolved
get_resolved(s) == SelectSeq(s, LAMBDA inc : inc.status = "Resolved")

\* the position of category cat in the dict ct, 0 if it is not a key
RECURSIVE KeyIndex(_, _, _)
KeyIndex(ct, cat, k) ==
    IF k > Len(ct) THEN 0
    ELSE IF ct[k].cat = cat THEN k
    ELSE KeyIndex(ct, cat, k + 1)

\* category_times after the grouping loop over res: the dict as the sequence
\* of its items in insertion order
RECURSIVE CategoryTimes(_)
CategoryTimes(res) ==
    IF res = << >> THEN << >>
    ELSE Only({IF ~Truthy(res[Len(res)].resolution_time_hours) THEN ct
               ELSE IF KeyIndex(ct, res[Len(res)].threat_category, 1) = 0
                    THEN Append(ct, [cat   |-> res[Len(res)].threat_category,
                                     times |-> <<res[Len(res)].resolution_time_hours[1]>>])
               ELSE [ct EXCEPT ![KeyIndex(ct, res[Len(res)].threat_category, 1)].times =
                                   Append(@, res[Len(res)].resolution_time_hours[1])] :
               ct \in {CategoryTimes(SubSeq(res, 1, Len(res) - 1))}})

\* sum(times): 0 + times[1] + ... in float arithmetic
RECURSIVE SumFloats(_)
SumFloats(times) ==
    IF times = << >> THEN FZero
    ELSE FAdd(SumFloats(SubSeq(times, 1, Len(times) - 1)), times[Len(times)])

\* sum(times) / len(times)
MeanOf(times) == FDivInt(SumFloats(times), Len(times))

\* avg_times: the items of the dict comprehension, in the order of category_times
AvgTimes(ct) == [k \in 1..Len(ct) |-> [cat |-> ct[k].cat, avg |-> MeanOf(ct[k].times)]]

\* max(avg_times.items(), key=lambda x: x[1]) over items k..: the position of
\* the first item whose average no later item exceeds, best being the best so far
RECURSIVE MaxItem(_, _, _)
MaxItem(avgs, k, best) ==
    IF k > Len(avgs) THEN best
    ELSE IF FLess(avgs[best].avg, avgs[k].avg) THEN MaxItem(avgs, k + 1, k)
    ELSE MaxItem(avgs, k + 1, best)

\* the dict returned for a non-empty avg_times
BottleneckDict(avgs) ==
    Only({[category            |-> avgs[b].cat,
           avg_resolution_time |-> avgs[b].avg,
           all_averages        |-> avgs] : b \in {MaxItem(avgs, 2, 1)}})

\* get_resolution_bottleneck: None, or Some(dict)
get_resolution_bottleneck(s) ==
    IF get_resolved(s) = << >> THEN None
    ELSE Only({IF ct = << >> THEN None ELSE Some(BottleneckDict(AvgTimes(ct))) :
               ct \in {CategoryTimes(get_resolved(s))}})

InitBottleneck ==
    /\ IdleExt
    /\ now = 0
    /\ incidents \in ListsUpTo({NewIncident(0, cat, "High", sh[1], sh[2]) :
                                    cat \in CategoryVals, sh \in StatusHours}, MaxResolved)
    /\ \A i \in 1..Len(incidents) : IncidentPostInit(incidents[i])
    /\ incResult = NoIncResult
    /\ IdleScore
    /\ IdleTickets
    /\ IdleRepo

GetResolutionBottleneck ==
    /\ incResult = NoIncResult
    /\ incResult' = [op |-> "get_resolution_bottleneck",
                     ret |-> get_resolution_bottleneck(incidents)]
    /\ UNCHANGED <<incidents, now, scoreVars, repoVars, tkVars, extVars>>

NextBottleneck == GetResolutionBottleneck \/ DropIncResult

SpecBottleneck == InitBottleneck /\ [][NextBottleneck]_vars

----------------------------------------------------------------------------
(* Properties of get_resolution_bottleneck (SpecBottleneck).               *)

BottleneckReturned == incResult.op = "get_resolution_bottleneck"

\* a Resolved incident with a resolution time, whatever its value
HasTime(inc) == inc.status = "Resolved" /\ inc.resolution_time_hours # None

TimedIncidents == SelectSeq(incidents, HasTime)

TimedCategories == {TimedIncidents[i].threat_category : i \in DOMAIN TimedIncidents}

\* the mean resolution time of the timed incidents of category cat
TimedMean(cat) ==
    MeanOf([k \in 1..Len(SelectSeq(TimedIncidents, LAMBDA inc : inc.threat_category = cat)) |->
               SelectSeq(TimedIncidents,
                         LAMBDA inc : inc.threat_category = cat)[k].resolution_time_hours[1]])

\* the position in the list of the first timed incident of category cat
FirstTimed(cat) ==
    CHOOSE i \in DOMAIN TimedIncidents :
        /\ TimedIncidents[i].threat_category = cat
        /\ \A j \in 1..(i - 1) : TimedIncidents[j].threat_category # cat

\* C13 (as stated): whenever some Resolved incident has a resolution time,
\* get_resolution_bottleneck returns the per-category means over all Resolved
\* incidents with a resolution time, whatever its value, and the category of
\* maximum mean, the first encountered one among equal means.
C13_MeansOverAllTimedResolved ==
    (BottleneckReturned /\ TimedCategories # {}) =>
        /\ incResult.ret # None
        /\ {<<incResult.ret[1].all_averages[k].cat, incResult.ret[1].all_averages[k].avg>> :
                k \in DOMAIN incResult.ret[1].all_averages}
              = {<<cat, TimedMean(cat)>> : cat \in TimedCategories}
        /\ incResult.ret[1].category \in TimedCategories
        /\ incResult.ret[1].avg_resolution_time = TimedMean(incResult.ret[1].category)
        /\ \A cat \in TimedCategories \ {incResult.ret[1].category} :
              \/ FLess(TimedMean(cat), TimedMean(incResult.ret[1].category))
              \/ /\ TimedMean(cat) = TimedMean(incResult.ret[1].category)
                 /\ FirstTimed(incResult.ret[1].category) < FirstTimed(cat)

\* the snapshot holds no Resolved incident with a resolution time
NoTimedResolved == \A i \in 1..Len(incidents) : ~HasTime(incidents[i])

\* C14: get_resolution_bottleneck returns None, and raises nothing, whenever
\* the list holds no Resolved incident with a resolution time: the empty
\* list, and lists of Unresolved and In Progress incidents only.
C14_NoneWithoutResolved ==
    (BottleneckReturned /\ NoTimedResolved) => incResult.ret = None

\* C14 witness: the call has returned for a non-empty list without Resolved
\* incidents, one of them In Progress with a resolution time recorded.
C14_OnlyOpenIncidents ==
    /\ BottleneckReturned
    /\ NoTimedResolved
    /\ \E i \in 1..Len(incidents) : /\ incidents[i].status = "In Progress"
                                    /\ incidents[i].resolution_time_hours # None

----------------------------------------------------------------------------
(* ITTicket, and ITTicketService over a repository built from a list of    *)
(* tickets: ITTicketRepository(tickets, use_database=False).  A dict is    *)
(* the sequence of its items in insertion order; the items of the grouping *)
(* dicts are [cat, times] and those of the average dicts [cat, avg], cat   *)
(* being the key.                                                          *)

MaxTickets == 3

\* ITTicket.__post_init__: TRUE iff no ValueError is raised
TicketPostInit(t) ==
    /\ t.priority \in {"Critical", "High", "Medium", "Low"}
    /\ ~FLess(t.total_resolution_time_hours, FZero)

\* ITTicket(...): the dataclass constructor
NewTicket(id, staff, priority, status, hours, stages) ==
    [ticket_id                   |-> id,
     assigned_staff              |-> staff,
     priority                    |-> priority,
     status                      |-> status,
     total_resolution_time_hours |-> hours,
     stage_times                 |-> stages]

\* <<assigned_staff, status, total_resolution_time_hours>> of the tickets of
\* the lists
StaffTickets ==
    {<<"A", "Resolved", FromInt(10)>>, <<"A", "Resolved", FromInt(20)>>,
     <<"B", "Resolved", FromInt(5)>>,  <<"B", "Resolved", FromInt(10)>>,
     <<"B", "Resolved", FromInt(0)>>,  <<"A", "In Progress", FromInt(40)>>}

\* get_resolved returning the tickets of every status
GetAllAsResolved(s) == s

\* ITTicketRepository.get_resolved
get_resolved_tickets(s) == SelectSeq(s, LAMBDA t : t.status = "Resolved")

\* staff_times after the grouping loop over res
RECURSIVE StaffTimes(_)
StaffTimes(res) ==
    IF res = << >> THEN << >>
    ELSE Only({IF KeyIndex(st, res[Len(res)].assigned_staff, 1) = 0
               THEN Append(st, [cat   |-> res[Len(res)].assigned_staff,
                                times |-> <<res[Len(res)].total_resolution_time_hours>>])
               ELSE [st EXCEPT ![KeyIndex(st, res[Len(res)].assigned_staff, 1)].times =
                                   Append(@, res[Len(res)].total_resolution_time_hours)] :
               st \in {StaffTimes(SubSeq(res, 1, Len(res) - 1))}})

\* performance_gap for the slowest item and the team average
PerformanceGap(slowest, team_avg) ==
    Only({[staff          |-> slowest.cat,
           avg_time       |-> slowest.avg,
           team_avg       |-> team_avg,
           gap_hours      |-> gap,
           gap_percentage |-> IF FLess(FZero, team_avg)
                              THEN FMul(FDiv(gap, team_avg), F100) ELSE FZero] :
          gap \in {FSub(slowest.avg, team_avg)}})

\* the dict returned for a non-empty staff_avg
StaffPerformanceDict(avgs) ==
    Only({[staff_performance |-> avgs,
           slowest_staff     |-> Some(PerformanceGap(avgs[MaxItem(avgs, 2, 1)], ta)),
           team_average      |-> ta] :
          ta \in {MeanOf([k \in 1..Len(avgs) |-> avgs[k].avg])}})

\* ITTicketService.get_staff_performance
get_staff_performance(s) ==
    IF get_resolved_tickets(s) = << >>
    THEN [staff_performance |-> << >>, slowest_staff |-> None]
    ELSE StaffPerformanceDict(AvgTimes(StaffTimes(get_resolved_tickets(s))))

NoTkResult == [op |-> "none"]

InitStaff ==
    /\ IdleExt
    /\ tickets \in {[i \in 1..Len(l) |->
                        NewTicket(i, l[i][1], "Medium", l[i][2], l[i][3], << >>)] :
                    l \in ListsUpTo(StaffTickets, MaxTickets)}
    /\ \A i \in 1..Len(tickets) : TicketPostInit(tickets[i])
    /\ tkResult = NoTkResult
    /\ ticketDb = << >>
    /\ IdleScore
    /\ IdleRepo
    /\ IdleIncidents

GetStaffPerformance ==
    /\ tkResult = NoTkResult
    /\ tkResult' = [op |-> "get_staff_performance", ret |-> get_staff_performance(tickets)]
    /\ UNCHANGED <<tickets, ticketDb, scoreVars, repoVars, incVars, extVars>>

DropTkResult ==
    /\ tkResult # NoTkResult
    /\ tkResult' = NoTkResult
    /\ UNCHANGED <<tickets, ticketDb, scoreVars, repoVars, incVars, extVars>>

NextStaff == GetStaffPerformance \/ DropTkResult

SpecStaff == InitStaff /\ [][NextStaff]_vars

----------------------------------------------------------------------------
(* Properties of get_staff_performance (SpecStaff).                        *)

StaffReturned == tkResult.op = "get_staff_performance"

ResolvedStaff ==
    {tickets[i].assigned_staff : i \in {j \in 1..Len(tickets) : tickets[j].status = "Resolved"}}

\* the mean of total_resolution_time_hours over the Resolved tickets of staff
ResolvedMean(staff) ==
    MeanOf([k \in 1..Len(SelectSeq(tickets, LAMBDA t : t.status = "Resolved"
                                                     /\ t.assigned_staff = staff)) |->
               SelectSeq(tickets, LAMBDA t : t.status = "Resolved"
                                             /\ t.assigned_staff = staff)[k]
                   .total_resolution_time_hours])

\* the tickets are A resolved in 10h, A resolved in 20h, B resolved in 5h
IsStaffExample ==
    /\ Len(tickets) = 3
    /\ \A i \in 1..3 : tickets[i].status = "Resolved"
    /\ [i \in 1..3 |-> <<tickets[i].assigned_staff, tickets[i].total_resolution_time_hours>>]
          = << <<"A", FromInt(10)>>, <<"A", FromInt(20)>>, <<"B", FromInt(5)>> >>

\* C15: get_staff_performance reports, over the Resolved tickets only, the
\* mean of total_resolution_time_hours per staff member, team_average as the
\* unweighted mean of those means, as slowest a staff member of maximum mean,
\* gap_hours = slowest mean - team average and gap_percentage =
\* gap / team average * 100, 0 when the team average is 0; without Resolved
\* tickets it reports no staff and no slowest.  For resolved tickets A=10h,
\* A=20h, B=5h: A=15, B=5, team average 10, slowest A, gap 5h and 50%.
C15_StaffMeansTeamAverageGap ==
    StaffReturned =>
        LET r == tkResult.ret
            g == tkResult.ret.slowest_staff[1]
        IN  IF ResolvedStaff = {}
            THEN r.staff_performance = << >> /\ r.slowest_staff = None
            ELSE /\ {<<r.staff_performance[k].cat, r.staff_performance[k].avg>> :
                         k \in DOMAIN r.staff_performance}
                       = {<<st, ResolvedMean(st)>> : st \in ResolvedStaff}
                 /\ Len(r.staff_performance) = Cardinality(ResolvedStaff)
                 /\ r.team_average =
                       MeanOf([k \in DOMAIN r.staff_performance |-> r.staff_performance[k].avg])
                 /\ r.slowest_staff # None
                 /\ g.staff \in ResolvedStaff
                 /\ g.avg_time = ResolvedMean(g.staff)
                 /\ \A st \in ResolvedStaff : ~FLess(g.avg_time, ResolvedMean(st))
                 /\ g.team_avg = r.team_average
                 /\ g.gap_hours = FSub(g.avg_time, r.team_average)
                 /\ g.gap_percentage =
                       IF IsZero(r.team_average) THEN FZero
                       ELSE FMul(FDiv(g.gap_hours, r.team_average), F100)
                 /\ IsStaffExample =>
                       /\ r.staff_performance = <<[cat |-> "A", avg |-> FromInt(15)],
                                                  [cat |-> "B", avg |-> FromInt(5)]>>
                       /\ r.team_average = FromInt(10)
                       /\ g.staff = "A"
                       /\ g.gap_hours = FromInt(5)
                       /\ g.gap_percentage = FromInt(50)

\* C15 witness: get_staff_performance has returned for the tickets A=10h,
\* A=20h, B=5h.
C15_ExampleReported == StaffReturned /\ IsStaffExample

----------------------------------------------------------------------------
(* ITTicketService.get_process_bottleneck.  stage_times is the sequence of *)
(* the dict's items <<stage, time>> in insertion order.                    *)

\* the stage_times of the tickets of the lists
StageTimesVals ==
    {<< >>,
     << <<"New", FromInt(0)>> >>,
     << <<"New", FromInt(10)>> >>,
     << <<"New", FromInt(10)>>, <<"Assigned", FromInt(20)>> >>,
     << <<"Assigned", FromInt(4)>>, <<"New", FromInt(2)>> >>}

\* the items of the stage_times of the tickets of s, in the order the two
\* nested loops visit them
RECURSIVE StageItems(_)
StageItems(s) ==
    IF s = << >> THEN << >>
    ELSE StageItems(SubSeq(s, 1, Len(s) - 1)) \o s[Len(s)].stage_times

\* stage_totals and stage_counts after the loops over the items: one item
\* [cat, total, count] per stage
RECURSIVE StageTotals(_)
StageTotals(items) ==
    IF items = << >> THEN << >>
    ELSE Only({IF KeyIndex(st, items[Len(items)][1], 1) = 0
               THEN Append(st, [cat   |-> items[Len(items)][1],
                                total |-> FAdd(FZero, items[Len(items)][2]),
                                count |-> 1])
               ELSE [st EXCEPT ![KeyIndex(st, items[Len(items)][1], 1)] =
                        [cat   |-> @.cat,
                         total |-> FAdd(@.total, items[Len(items)][2]),
                         count |-> @.count + 1]] :
               st \in {StageTotals(SubSeq(items, 1, Len(items) - 1))}})

\* stage_averages
StageAverages(st) ==
    [k \in 1..Len(st) |-> [cat |-> st[k].cat, avg |-> FDivInt(st[k].total, st[k].count)]]

\* the dict returned for non-empty stage_totals st, b being the position of
\* the bottleneck stage and total_time the sum of the totals
ProcessBottleneckDict(st, avgs, b, total_time) ==
    [stage      |-> avgs[b].cat,
     avg_time   |-> avgs[b].avg,
     total_time |-> st[b].total,
     percentage |-> IF FLess(FZero, total_time)
                    THEN FMul(FDiv(st[b].total, total_time), F100) ELSE FZero,
     all_stages |-> avgs]

\* get_process_bottleneck without the test of stage_totals: max() of an empty
\* dict raises
ProcessBottleneckUnguarded(s) ==
    IF s = << >> THEN None
    ELSE IF StageItems(s) = << >> THEN Some([raised |-> "ValueError"])
    ELSE Some([stage |-> StageItems(s)[1][1]])

\* ITTicketService.get_process_bottleneck: None, or Some(dict)
get_process_bottleneck(s) ==
    IF s = << >> THEN None
    ELSE Only({IF st = << >> THEN None
               ELSE Only({Some(ProcessBottleneckDict(st, avgs, MaxItem(avgs, 2, 1),
                                   SumFloats([k \in 1..Len(st) |-> st[k].total]))) :
                          avgs \in {StageAverages(st)}}) :
               st \in {StageTotals(StageItems(s))}})

InitProcess ==
    /\ IdleExt
    /\ tickets \in {[i \in 1..Len(l) |->
                        NewTicket(i, "A", "Medium", "Resolved", FromInt(30), l[i])] :
                    l \in ListsUpTo(StageTimesVals, MaxTickets)}
    /\ \A i \in 1..Len(tickets) : TicketPostInit(tickets[i])
    /\ tkResult = NoTkResult
    /\ ticketDb = << >>
    /\ IdleScore
    /\ IdleRepo
    /\ IdleIncidents

GetProcessBottleneck ==
    /\ tkResult = NoTkResult
    /\ tkResult' = [op |-> "get_process_bottleneck", ret |-> get_process_bottleneck(tickets)]
    /\ UNCHANGED <<tickets, ticketDb, scoreVars, repoVars, incVars, extVars>>

NextProcess == GetProcessBottleneck \/ DropTkResult

SpecProcess == InitProcess /\ [][NextProcess]_vars

----------------------------------------------------------------------------
(* Properties of get_process_bottleneck (SpecProcess).                     *)

ProcessReturned == tkResult.op = "get_process_bottleneck"

\* the entry counts in the mean of its stage
CountedEntry(item) == ~IsZero(item[2])

\* the times of the counted entries of stage, in ticket order
CountedTimes(stage) ==
    [k \in 1..Len(SelectSeq(StageItems(tickets),
                            LAMBDA it : it[1] = stage /\ CountedEntry(it))) |->
        SelectSeq(StageItems(tickets), LAMBDA it : it[1] = stage /\ CountedEntry(it))[k][2]]

\* C16 (as stated): the mean reported for a stage is the mean over the
\* tickets with a nonzero entry for that stage, an entry of 0 being left out
\* of the denominator, and the stage returned is one of maximum mean.
C16_MeanOverNonzeroEntries ==
    (ProcessReturned /\ tkResult.ret # None) =>
        LET r == tkResult.ret[1]
        IN  /\ \A k \in DOMAIN r.all_stages :
                  CountedTimes(r.all_stages[k].cat) # << >> =>
                      r.all_stages[k].avg = MeanOf(CountedTimes(r.all_stages[k].cat))
            /\ \A k \in DOMAIN r.all_stages : ~FLess(r.avg_time, r.all_stages[k].avg)
            /\ \E k \in DOMAIN r.all_stages :
                  r.all_stages[k].cat = r.stage /\ r.all_stages[k].avg = r.avg_time

\* no ticket carries a stage-time entry
NoStageEntries == \A i \in 1..Len(tickets) : tickets[i].stage_times = << >>

\* C17: get_process_bottleneck returns None, and raises nothing, whenever no
\* ticket carries a stage-time entry: for the empty list and for a non-empty
\* list of tickets with empty stage_times.
C17_NoneWithoutStageEntries ==
    (ProcessReturned /\ NoStageEntries) => tkResult.ret = None

\* C17 witness: the call has returned for a non-empty list of tickets whose
\* stage_times are all empty.
C17_TicketsWithoutStages ==
    /\ ProcessReturned
    /\ tickets # << >>
    /\ NoStageEntries

----------------------------------------------------------------------------
(* Construction of a SecurityIncident and of a Dataset: the dataclass      *)
(* constructor assigns the fields and runs __post_init__, which raises     *)
(* ValueError or returns.                                                  *)

SeverityArgs == {"High", "Medium", "Low", "Critical", "high"}

StatusArgs == {"Unresolved", "In Progress", "Resolved", "Closed", ""}

HoursArgs == {None, Some(FromInt(0)), Some(FromInt(5))}

\* SecurityIncident(date, threat_category, severity, status, resolution_time_hours)
SecurityIncident(date, category, severity, status, hours) ==
    IF IncidentPostInit(NewIncident(date, category, severity, status, hours))
    THEN [raised |-> "none", obj |-> NewIncident(date, category, severity, status, hours)]
    ELSE [raised |-> "ValueError"]

ConstructIncident ==
    /\ incResult = NoIncResult
    /\ \E category \in CategoryVals, severity \in SeverityArgs,
          status \in StatusArgs, hours \in HoursArgs :
          incResult' = [op   |-> "SecurityIncident",
                        args |-> <<now, category, severity, status, hours>>,
                        ret  |-> SecurityIncident(now, category, severity, status, hours)]
    /\ UNCHANGED <<incidents, now, scoreVars, repoVars, tkVars, extVars>>

NextIncidentInit == ConstructIncident \/ DropIncResult

SpecIncidentInit == InitIncident /\ [][NextIncidentInit]_vars

\* C18: SecurityIncident(...) raises ValueError exactly when severity is not
\* High, Medium or Low, or status is not Unresolved, In Progress or Resolved,
\* or status is Resolved with resolution_time_hours None; otherwise it
\* returns an incident whose fields are the arguments, unchanged.
C18_IncidentValidation ==
    incResult.op = "SecurityIncident" =>
        LET a == incResult.args
        IN  IF \/ a[3] \notin {"High", "Medium", "Low"}
               \/ a[4] \notin {"Unresolved", "In Progress", "Resolved"}
               \/ (a[4] = "Resolved" /\ a[5] = None)
            THEN incResult.ret.raised = "ValueError"
            ELSE /\ incResult.ret.raised = "none"
                 /\ incResult.ret.obj.date = a[1]
                 /\ incResult.ret.obj.threat_category = a[2]
                 /\ incResult.ret.obj.severity = a[3]
                 /\ incResult.ret.obj.status = a[4]
                 /\ incResult.ret.obj.resolution_time_hours = a[5]

\* C18 witness: the construction of a Resolved incident of valid severity
\* without a resolution time has raised.
C18_ResolvedWithoutTimeRejected ==
    /\ incResult.op = "SecurityIncident"
    /\ incResult.args[3] = "High"
    /\ incResult.args[4] = "Resolved"
    /\ incResult.args[5] = None
    /\ incResult.ret.raised = "ValueError"

SizeArgs == {-1, 0, 100}

DaysArgs == {-1, 0, 90}

QualityArgs == {"Passed", "Failed", "Pending", "Unknown"}

CountArgs == {-1, 0, 2}

\* Dataset(..., size_gb, days_since_access, quality_status, dependencies,
\* access_frequency_30d, storage_cost_per_month)
Dataset(size, days, quality, deps, freq, cost) ==
    IF DatasetPostInit(NewDataset(size, days, quality, deps, freq, cost, None))
    THEN [raised |-> "none", obj |-> NewDataset(size, days, quality, deps, freq, cost, None)]
    ELSE [raised |-> "ValueError"]

ConstructDataset ==
    /\ Idle
    /\ \E size \in SizeArgs, days \in DaysArgs, quality \in QualityArgs,
          deps \in CountArgs, freq \in CountArgs :
          dsResult' = [op   |-> "Dataset",
                       args |-> <<size, days, quality, deps, freq>>,
                       ret  |-> Dataset(size, days, quality, deps, freq, FZero)]
    /\ UNCHANGED <<datasets, provenance, scoreVars, incVars, tkVars, extVars>>

NextDatasetInit == ConstructDataset \/ DropResult

SpecDatasetInit == InitRepo /\ [][NextDatasetInit]_vars

\* C19 (as stated): Dataset(...) raises ValueError exactly when size_gb,
\* days_since_access, dependencies or access_frequency_30d is negative or
\* quality_status is not Passed, Failed or Pending, so that every Dataset
\* constructed satisfies all five constraints.
C19_DatasetValidation ==
    dsResult.op = "Dataset" =>
        LET a == dsResult.args
        IN  (dsResult.ret.raised = "ValueError") <=>
               \/ a[1] < 0
               \/ a[2] < 0
               \/ a[3] \notin {"Passed", "Failed", "Pending"}
               \/ a[4] < 0
               \/ a[5] < 0

----------------------------------------------------------------------------
(* The tickets of an ITTicketRepository under the IT operations page: the  *)
(* script builds the repository from the database, or from generated       *)
(* tickets when the database has none, and runs again after each handler   *)
(* (st.rerun()).  A ticket_id is a number: TKT-0001 is 1.                   *)

MaxTicketId == 3

GeneratedCount == 2

\* the ITTicket the add form builds for a ticket that is not resolved
FormTicket(id) == NewTicket(id, "Unassigned", "Medium", "New", FZero, << >>)

\* ITTicketRepository._load_from_database: one ticket per row
load_from_database(db) == [i \in 1..Len(db) |-> FormTicket(db[i])]

\* ITTicketGenerator.generate(num_tickets): ticket_id runs from 1 to num_tickets
generate(num_tickets) ==
    [i \in 1..num_tickets |->
        NewTicket(i, "John Smith", "Medium", "Resolved", FromInt(30), << >>)]

\* the repository the script builds on a run: the database's tickets, or the
\* generated ones when repository.count() == 0
RepositoryOnRun(db) ==
    IF Len(load_from_database(db)) = 0 THEN generate(GeneratedCount)
    ELSE load_from_database(db)

InitTickets ==
    /\ IdleExt
    /\ IdleTickets
    /\ IdleScore
    /\ IdleRepo
    /\ IdleIncidents

\* the script runs: a page load
RunPage ==
    /\ tickets' = RepositoryOnRun(ticketDb)
    /\ UNCHANGED <<tkResult, ticketDb, scoreVars, repoVars, incVars, extVars>>

\* ITTicketRepository.add(ticket)
RepositoryAdd ==
    /\ Len(tickets) < MaxTickets
    /\ \E id \in 1..MaxTicketId : tickets' = Append(tickets, FormTicket(id))
    /\ UNCHANGED <<tkResult, ticketDb, scoreVars, repoVars, incVars, extVars>>

\* the add form handler: the INSERT fails on a ticket_id the table holds
\* (ticket_id is UNIQUE) and the handler reports the error; otherwise the
\* row is inserted, the ticket added and the script runs again
AddTicketForm ==
    /\ Len(ticketDb) < MaxTickets
    /\ \E id \in 1..MaxTicketId :
          IF \E k \in 1..Len(ticketDb) : ticketDb[k] = id
          THEN UNCHANGED <<tickets, ticketDb>>
          ELSE /\ ticketDb' = Append(ticketDb, id)
               /\ tickets' = RepositoryOnRun(Append(ticketDb, id))
    /\ UNCHANGED <<tkResult, scoreVars, repoVars, incVars, extVars>>

\* the delete handler for the ticket at position i: the row is deleted, the
\* ticket removed and the script runs again
DeleteTicketForm(i) ==
    /\ ticketDb' = SelectSeq(ticketDb, LAMBDA id : id # tickets[i].ticket_id)
    /\ tickets' = RepositoryOnRun(SelectSeq(ticketDb, LAMBDA id : id # tickets[i].ticket_id))
    /\ UNCHANGED <<tkResult, scoreVars, repoVars, incVars, extVars>>

NextTickets ==
    \/ RunPage
    \/ RepositoryAdd
    \/ AddTicketForm
    \/ \E i \in 1..Len(tickets) : DeleteTicketForm(i)

SpecTickets == InitTickets /\ [][NextTickets]_vars

\* C20 (as stated): no two tickets of the repository share a ticket_id.
C20_TicketIdUnique ==
    \A i, j \in 1..Len(tickets) : i # j => tickets[i].ticket_id # tickets[j].ticket_id

-----------------------------------------------------------------------------
(* Users (models/user.py, repositories/user_repository.py,                  *)
(* services/user_service.py).  A password is the sequence of its characters; *)
(* a message is a sequence of strings.  The repository keeps its users in    *)
(* _storage (use_database False) or in the users table (use_database True).  *)

RoleNames == {"Cyber Security", "Data Scientist", "IT Operations"}

UpperChars == {"A", "B"}

DigitChars == {"1", "2"}

UsernameArgs == {"", "alice", "bob"}

PasswordArgs == {<< >>, <<"a", "b">>, <<"A", "b">>, <<"a", "1">>, <<"A", "1">>, <<"B", "2">>}

RoleArgs == {"Cyber Security", "IT Operations", "Admin"}

SaltVals == {"salt1", "salt2"}

\* User.__post_init__: the message of the ValueError it raises, or None
UserPostInit(username, password, role) ==
    IF username = "" THEN Some(<<"Username cannot be empty">>)
    ELSE IF password = << >> THEN Some(<<"Password cannot be empty">>)
    ELSE IF role \notin RoleNames THEN Some(<<"Invalid role: ", role>>)
    ELSE None

\* User.validate_password: (is_valid, error_message)
validate_password(password) ==
    LET has_capital == \E i \in 1..Len(password) : password[i] \in UpperChars
        has_number == \E i \in 1..Len(password) : password[i] \in DigitChars
        missing == (IF has_capital THEN << >> ELSE <<"at least one capital letter">>)
                   \o (IF has_number THEN << >> ELSE <<"at least one number">>)
    IN IF ~has_capital \/ ~has_number
       THEN <<FALSE, Some(<<"Password must contain: ">> \o missing)>>
       ELSE <<TRUE, None>>

\* User.to_dict
UserToDict(username, password, role) ==
    [username |-> username, password |-> password, role |-> role]

\* bcrypt.hashpw(password, salt): the hash carries its salt
hashpw(password, salt) == <<"$2b$", salt>> \o password

\* bcrypt.checkpw(password, hashed): hashes the password with the salt of
\* the stored hash and compares
checkpw(password, hashed) == hashpw(password, hashed[2]) = hashed

\* app.data.users.get_user_by_username: the row of the users table with the
\* username, or None
get_user_by_username(table, username) ==
    IF \E k \in 1..Len(table) : table[k].username = username
    THEN Some(table[CHOOSE k \in 1..Len(table) : table[k].username = username])
    ELSE None

\* app.data.users.insert_user: a new row of the users table
insert_user(table, username, password_hash, role) ==
    Append(table, [id |-> Len(table) + 1, username |-> username,
                   password_hash |-> password_hash, role |-> role])

\* username in self._storage
InStorage(username) == \E k \in 1..Len(storage) : storage[k].username = username

\* UserRepository.exists
exists(username) ==
    IF use_database THEN get_user_by_username(usersTable, username) # None
    ELSE InStorage(username)

\* UserRepository.create(user): the value returned and the users stored after it
create(user, salt) ==
    IF use_database
    THEN IF get_user_by_username(usersTable, user.username) # None
         THEN [ok |-> FALSE, storage |-> storage, usersTable |-> usersTable]
         ELSE [ok |-> TRUE, storage |-> storage,
               usersTable |-> insert_user(usersTable, user.username,
                                          hashpw(user.password, salt), user.role)]
    ELSE IF InStorage(user.username)
         THEN [ok |-> FALSE, storage |-> storage, usersTable |-> usersTable]
         ELSE [ok |-> TRUE,
               storage |-> Append(storage,
                                  UserToDict(user.username, user.password, user.role)),
               usersTable |-> usersTable]

\* the result of register_user that stores nothing
Refused(msg) == [ret |-> <<FALSE, Some(msg)>>, storage |-> storage, usersTable |-> usersTable]

\* register_user without the call of validate_password
RegisterUserNoPasswordCheck(username, password, role, salt) ==
    IF exists(username)
    THEN Refused(<<"Username already exists. Choose another one.">>)
    ELSE IF UserPostInit(username, password, role) # None
    THEN Refused(UserPostInit(username, password, role)[1])
    ELSE LET c == create(UserToDict(username, password, role), salt)
         IN IF c.ok
            THEN [ret |-> <<TRUE, None>>, storage |-> c.storage, usersTable |-> c.usersTable]
            ELSE Refused(<<"Failed to create user">>)

\* UserService.register_user: the (success, error_message) returned and the
\* users stored after it
register_user(username, password, role, salt) ==
    IF exists(username)
    THEN Refused(<<"Username already exists. Choose another one.">>)
    ELSE IF UserPostInit(username, password, role) # None
    THEN Refused(UserPostInit(username, password, role)[1])
    ELSE IF ~validate_password(password)[1]
    THEN Refused(validate_password(password)[2][1])
    ELSE LET c == create(UserToDict(username, password, role), salt)
         IN IF c.ok
            THEN [ret |-> <<TRUE, None>>, storage |-> c.storage, usersTable |-> c.usersTable]
            ELSE Refused(<<"Failed to create user">>)

\* User(...) as authenticate and find_by_username build it: the ValueError of
\* __post_init__, or the user
User(username, password, role) ==
    IF UserPostInit(username, password, role) # None
    THEN [raised |-> "ValueError"]
    ELSE [raised |-> "none", ret |-> Some(UserToDict(username, password, role))]

\* UserRepository.find_by_username
find_by_username(username) ==
    IF use_database
    THEN LET user_data == get_user_by_username(usersTable, username)
         IN IF user_data # None
            THEN User(user_data[1].username, user_data[1].password_hash, user_data[1].role)
            ELSE [raised |-> "none", ret |-> None]
    ELSE IF InStorage(username)
         THEN LET data == storage[CHOOSE k \in 1..Len(storage) : storage[k].username = username]
              IN User(data.username, data.password, data.role)
         ELSE [raised |-> "none", ret |-> None]

\* authenticate without the comparison of the password
AuthenticateAnyPassword(username, password) == find_by_username(username)

\* UserRepository.authenticate
authenticate(username, password) ==
    IF use_database
    THEN LET user_data == get_user_by_username(usersTable, username)
         IN IF user_data = None THEN [raised |-> "none", ret |-> None]
            ELSE IF checkpw(password, user_data[1].password_hash)
            THEN User(user_data[1].username, user_data[1].password_hash, user_data[1].role)
            ELSE [raised |-> "none", ret |-> None]
    ELSE LET user == find_by_username(username)
         IN IF user.raised # "none" THEN user
            ELSE IF user.ret # None /\ user.ret[1].password = password THEN user
            ELSE [raised |-> "none", ret |-> None]

\* UserService.login
login(username, password) == authenticate(username, password)

NoUsResult == [op |-> "none"]

\* UserRepository(use_database) and the UserService over it
InitUsers ==
    /\ use_database \in BOOLEAN
    /\ storage = << >>
    /\ usersTable = << >>
    /\ registered = {}
    /\ usResult = NoUsResult
    /\ incidentDb = << >>
    /\ IdleAlias
    /\ IdleSession
    /\ IdleScore
    /\ IdleRepo
    /\ IdleIncidents
    /\ IdleTickets

\* a call of user_service.register_user; registered keeps the arguments of
\* the calls that succeeded
RegisterUser ==
    /\ \E username \in UsernameArgs, password \in PasswordArgs, role \in RoleArgs,
          salt \in SaltVals :
          LET out == register_user(username, password, role, salt)
          IN /\ storage' = out.storage
             /\ usersTable' = out.usersTable
             /\ usResult' = [op |-> "register", args |-> <<username, password, role>>,
                             ret |-> out.ret]
             /\ registered' = IF out.ret[1]
                              THEN registered \cup {<<username, password, role>>}
                              ELSE registered
    /\ UNCHANGED <<use_database, coreVars, pageVars, aliasVars, sessVars>>

\* a call of user_service.login
Login ==
    /\ \E username \in UsernameArgs, password \in PasswordArgs :
          usResult' = [op |-> "login", args |-> <<username, password>>,
                       out |-> login(username, password)]
    /\ UNCHANGED <<use_database, storage, usersTable, registered, coreVars, pageVars, aliasVars, sessVars>>

DropUsResult ==
    /\ usResult # NoUsResult
    /\ usResult' = NoUsResult
    /\ UNCHANGED <<use_database, storage, usersTable, registered, coreVars, pageVars, aliasVars, sessVars>>

NextUsers ==
    \/ RegisterUser
    \/ Login
    \/ DropUsResult

SpecUsers == InitUsers /\ [][NextUsers]_vars

\* the users stored, in either mode, as (username, role) with the stored password
StoredUsers ==
    IF use_database
    THEN {<<usersTable[k].username, usersTable[k].password_hash, usersTable[k].role>> :
             k \in 1..Len(usersTable)}
    ELSE {<<storage[k].username, storage[k].password, storage[k].role>> :
             k \in 1..Len(storage)}

\* the arguments register_user has to refuse, in the state of the call
MustRefuse(args) ==
    \/ \E e \in StoredUsers : e[1] = args[1]
    \/ args[3] \notin {"Cyber Security", "Data Scientist", "IT Operations"}
    \/ args[1] = ""
    \/ args[2] = << >>
    \/ ~\E i \in 1..Len(args[2]) : args[2][i] \in {"A", "B"}
    \/ ~\E i \in 1..Len(args[2]) : args[2][i] \in {"1", "2"}

OneAccountPerUsername ==
    \A e, f \in StoredUsers : e[1] = f[1] => e = f

\* C21: register_user returns failure with a message and leaves the stored
\* users unchanged when the username is registered, the role is not one of
\* the three roles, the username or the password is empty, or the password
\* lacks a capital letter or a digit; at most one account exists per
\* username, and a stored account keeps its password and role.
C21_RegistrationRefusals ==
    /\ []OneAccountPerUsername
    /\ [][/\ StoredUsers \subseteq StoredUsers'
          /\ (usResult'.op = "register" /\ MustRefuse(usResult'.args))
                => /\ usResult'.ret[1] = FALSE
                   /\ usResult'.ret[2] # None
                   /\ storage' = storage
                   /\ usersTable' = usersTable]_vars

\* C21 witness: a registration under a registered username was refused
C21_DuplicateRefused ==
    /\ usResult.op = "register"
    /\ usResult.ret[1] = FALSE
    /\ \E e \in StoredUsers : e[1] = usResult.args[1] /\ e[3] # usResult.args[3]
    /\ validate_password(usResult.args[2])[1]

\* C22: login(u, p) returns a user, with the role given at registration, if
\* and only if an earlier register_user(u, p, r) succeeded; otherwise it
\* returns None; it never raises.
C22_LoginIffRegistered ==
    usResult.op = "login" =>
        /\ usResult.out.raised = "none"
        /\ usResult.out.ret # None
              <=> \E t \in registered : t[1] = usResult.args[1] /\ t[2] = usResult.args[2]
        /\ usResult.out.ret # None
              => /\ usResult.out.ret[1].username = usResult.args[1]
                 /\ <<usResult.args[1], usResult.args[2], usResult.out.ret[1].role>>
                       \in registered

\* C22 witness: a login with a registered username and another password
\* returned None, in the database mode
C22_WrongPasswordNone ==
    /\ use_database
    /\ usResult.op = "login"
    /\ usResult.out.raised = "none"
    /\ usResult.out.ret = None
    /\ \E t \in registered : t[1] = usResult.args[1] /\ t[2] # usResult.args[2]
                             /\ validate_password(usResult.args[2])[1]

-----------------------------------------------------------------------------
(* The incidents page (pages/1_CyberSecurity.py) over the cyber_incidents    *)
(* table.  incidentDb holds the rows of the table in the order of their ids; *)
(* a row is identified by its position.  incidents is the _incidents list of *)
(* the repository the script built on its last run.                          *)

MaxRows == 2

PageDays == {1}

CsvSeverityVals == {"Critical", "Urgent"}

CsvStatusVals == {"Closed"}

FormSeverityVals == {"High", "Low"}

AddSeverityVals == {"High"}

FormStatusVals == {"Unresolved", "In Progress", "Resolved"}

FormHoursVals == {FZero}

\* status_map.get(row['status'], row['status']) of load_cyber_incidents_csv
status_map(status) ==
    CASE status = "Closed" -> "Resolved"
      [] status = "Resolved" -> "Resolved"
      [] status = "Open" -> "Unresolved"
      [] status = "In Progress" -> "In Progress"
      [] OTHER -> status

\* a row of cyber_incidents: date is the day of the 'YYYY-MM-DD' text
IncidentRow(date, incident_type, severity, status) ==
    [date |-> date, incident_type |-> incident_type, severity |-> severity,
     status |-> status]

\* datetime.strftime('%Y-%m-%d'): the day of a datetime
strftime(dt) == dt \div TicksPerDay

\* pd.to_datetime(row['date']).to_pydatetime(): midnight of the day
to_datetime(day) == timedelta(day)

\* app.data.incidents.insert_incident: a new row after the rows of the table
insert_incident(db, date, incident_type, severity, status) ==
    Append(db, IncidentRow(date, incident_type, severity, status))

\* app.data.incidents.update_incident_status: the status of the row with the id
update_incident_status(db, id, status) == [db EXCEPT ![id].status = status]

\* app.data.incidents.delete_incident: the table without the row with the id
delete_incident(db, id) == [k \in 1..(Len(db) - 1) |-> IF k < id THEN db[k] ELSE db[k + 1]]

\* 24.0 (1.5 * 2^4) and 2.0 as binary64
F24 == [neg |-> FALSE, man |-> <<0, 0, 0, 192>>, exp |-> -48]

F2 == [neg |-> FALSE, man |-> <<0, 0, 0, 128>>, exp |-> -51]

\* the SecurityIncident the loader builds for a row
LoadedIncident(row) ==
    SecurityIncident(to_datetime(row.date), row.incident_type,
                     IF row.severity = "Critical" THEN "High" ELSE row.severity,
                     row.status,
                     IF row.status = "Resolved" THEN Some(F24) ELSE None)

\* SecurityIncidentRepository._load_from_database; fails: get_all_incidents raises
load_incidents(db, fails) ==
    IF fails THEN [raised |-> "none", ret |-> << >>]
    ELSE LET rows == SelectSeq(db, LAMBDA row : LoadedIncident(row).raised = "none")
         IN [raised |-> "none",
             ret |-> [k \in 1..Len(rows) |-> LoadedIncident(rows[k]).obj]]

\* SecurityIncidentGenerator(seed=42).generate(days): a Resolved incident has
\* a resolution time, another incident has none
GeneratedIncidents ==
    <<NewIncident(timedelta(1), "Phishing", "Medium", "Resolved", Some(F2)),
      NewIncident(timedelta(1), "Malware", "High", "In Progress", None)>>

\* the _incidents of the repository the script builds on a run: the loaded
\* incidents, or the generated ones when repository.count() == 0
IncidentsOnRun(db, fails) ==
    IF Len(load_incidents(db, fails).ret) = 0 THEN GeneratedIncidents
    ELSE load_incidents(db, fails).ret

\* the id of the first row with the date and the category of the incident, or 0
MatchingId(db, inc) ==
    IF \E k \in 1..Len(db) : db[k].date = strftime(inc.date)
                             /\ db[k].incident_type = inc.threat_category
    THEN CHOOSE k \in 1..Len(db) :
            /\ db[k].date = strftime(inc.date) /\ db[k].incident_type = inc.threat_category
            /\ \A j \in 1..(k - 1) : ~(db[j].date = strftime(inc.date)
                                       /\ db[j].incident_type = inc.threat_category)
    ELSE 0

\* the assignments of the update handler without the one of the resolution time
UpdatedKeepsTime(inc, new_status, new_severity, new_category, new_time) ==
    [inc EXCEPT !.status = new_status,
                !.severity = new_severity,
                !.threat_category = new_category]

\* the assignments of the update handler to the selected incident
UpdatedIncident(inc, new_status, new_severity, new_category, new_time) ==
    [inc EXCEPT !.status = new_status,
                !.severity = new_severity,
                !.threat_category = new_category,
                !.resolution_time_hours =
                    IF new_status = "Resolved" THEN Some(new_time) ELSE @]

InitIncidentPage ==
    /\ IdleUsers
    /\ IdleAlias
    /\ IdleSession
    /\ incidentDb = << >>
    /\ incidents = << >>
    /\ now = 0
    /\ incResult = NoIncResult
    /\ IdleScore
    /\ IdleTickets
    /\ IdleRepo

\* load_cyber_incidents_csv: a row of the CSV file is inserted unless the
\* table holds an equal row
LoadCyberIncidentsCsv ==
    /\ Len(incidentDb) < MaxRows
    /\ \E date \in PageDays, category \in CategoryVals,
          severity \in CsvSeverityVals, status \in CsvStatusVals :
          LET row == IncidentRow(date, category, severity, status_map(status))
          IN incidentDb' = IF \E k \in 1..Len(incidentDb) : incidentDb[k] = row
                           THEN incidentDb
                           ELSE Append(incidentDb, row)
    /\ UNCHANGED <<incidents, now, incResult, scoreVars, repoVars, tkVars, usVars, aliasVars, sessVars>>

\* a run of the script: the repository is built from the table
RunIncidentPage ==
    /\ \E fails \in BOOLEAN :
          /\ incidents' = IncidentsOnRun(incidentDb, fails)
          /\ incResult' = [op |-> "load", storeFailed |-> fails, rows |-> incidentDb,
                           out |-> load_incidents(incidentDb, fails)]
    /\ UNCHANGED <<incidentDb, now, scoreVars, repoVars, tkVars, usVars, aliasVars, sessVars>>

\* SecurityIncidentRepository.add(incident)
RepositoryAddIncident ==
    /\ Len(incidents) < MaxIncidents
    /\ \E date \in PageDays, category \in CategoryVals, status \in {"Unresolved", "Resolved"} :
          LET made == SecurityIncident(to_datetime(date), category, "High", status,
                                       IF status = "Resolved" THEN Some(FZero) ELSE None)
          IN /\ incidents' = Append(incidents, made.obj)
             /\ incResult' = [op |-> "add", added |-> made.obj]
    /\ UNCHANGED <<incidentDb, now, scoreVars, repoVars, tkVars, usVars, aliasVars, sessVars>>

\* the add_incident_form handler: an exception (of the Store, or no row found
\* by update and delete) is displayed and nothing changes; otherwise the
\* incident is built, its row inserted, the incident added and the script
\* runs again (a Store failure of that run is the step RunIncidentPage)
AddIncidentForm ==
    /\ Len(incidentDb) < MaxRows
    /\ \/ /\ incResult' = [op |-> "add_form", done |-> FALSE]
             /\ UNCHANGED <<incidents, incidentDb>>
       \/ \E date \in PageDays, category \in CategoryVals, severity \in AddSeverityVals,
             status \in FormStatusVals, resolution_time \in FormHoursVals :
             LET made == SecurityIncident(to_datetime(date), category, severity, status,
                                          IF status = "Resolved" THEN Some(resolution_time)
                                          ELSE None)
                 db == insert_incident(incidentDb, date, category, severity, status)
             IN /\ made.raised = "none"
                /\ incidentDb' = db
                /\ incResult' = [op |-> "add_form", done |-> TRUE, added |-> made.obj]
                /\ incidents' = IncidentsOnRun(db, FALSE)
    /\ UNCHANGED <<now, scoreVars, repoVars, tkVars, usVars, aliasVars, sessVars>>

\* the update_incident_form handler for the incident at position i: the
\* status of the first row with its date and category is updated, the
\* incident assigned in place and the script runs again
UpdateIncidentForm(i) ==
    /\ \/ /\ incResult' = [op |-> "update_form", done |-> FALSE]
             /\ UNCHANGED <<incidents, incidentDb>>
       \/ \E new_status \in FormStatusVals, new_severity \in FormSeverityVals,
             new_category \in CategoryVals, new_time \in FormHoursVals :
             LET id == MatchingId(incidentDb, incidents[i])
                 db == update_incident_status(incidentDb, id, new_status)
                 updated == UpdatedIncident(incidents[i], new_status, new_severity,
                                            new_category, new_time)
             IN /\ id # 0
                /\ incidentDb' = db
                /\ incResult' = [op |-> "update_form", done |-> TRUE, updated |-> updated]
                /\ incidents' = IncidentsOnRun(db, FALSE)
    /\ UNCHANGED <<now, scoreVars, repoVars, tkVars, usVars, aliasVars, sessVars>>

\* the delete handler for the incident at position i
DeleteIncidentForm(i) ==
    /\ \/ /\ incResult' = [op |-> "delete", done |-> FALSE]
             /\ UNCHANGED <<incidents, incidentDb>>
       \/ LET id == MatchingId(incidentDb, incidents[i])
              db == delete_incident(incidentDb, id)
          IN /\ id # 0
             /\ incidentDb' = db
             /\ incResult' = [op |-> "delete", done |-> TRUE]
             /\ incidents' = IncidentsOnRun(db, FALSE)
    /\ UNCHANGED <<now, scoreVars, repoVars, tkVars, usVars, aliasVars, sessVars>>

\* the repository alone: its load and its add
NextIncidentLoad ==
    \/ LoadCyberIncidentsCsv
    \/ RunIncidentPage
    \/ RepositoryAddIncident

SpecIncidentLoad == InitIncidentPage /\ [][NextIncidentLoad]_vars

NextIncidentPage ==
    \/ LoadCyberIncidentsCsv
    \/ RunIncidentPage
    \/ AddIncidentForm
    \/ \E i \in 1..Len(incidents) : UpdateIncidentForm(i)
    \/ \E i \in 1..Len(incidents) : DeleteIncidentForm(i)

SpecIncidentPage == InitIncidentPage /\ [][NextIncidentPage]_vars

\* C23 (as stated): a validation error of an entity built while the
\* repository loads the rows of the Store reaches the caller of the load.
C23_LoadValidationErrorReachesCaller ==
    (/\ incResult.op = "load"
     /\ ~incResult.storeFailed
     /\ \E k \in 1..Len(incResult.rows) : LoadedIncident(incResult.rows[k]).raised # "none")
        => incResult.out.raised = "ValueError"

\* C24 (as stated): a failure of the Store call during the load of the
\* snapshot reaches the caller of the repository; no result stands in for it.
C24_StoreFailureReachesCaller ==
    (incResult.op = "load" /\ incResult.storeFailed)
        => incResult.out.raised = "StoreError"

\* the Store holds a record for the incident
StoreHolds(inc) ==
    \E k \in 1..Len(incidentDb) :
        /\ incidentDb[k].date = strftime(inc.date)
        /\ incidentDb[k].incident_type = inc.threat_category
        /\ incidentDb[k].severity = inc.severity
        /\ incidentDb[k].status = inc.status

\* C25 (as stated): after repository.add(e) the Store holds a record for e
\* and the snapshot contains e.
C25_AddRelayedToStore ==
    incResult.op = "add"
        => /\ StoreHolds(incResult.added)
           /\ \E i \in 1..Len(incidents) : incidents[i] = incResult.added

ResolvedHasTime(inc) == inc.status = "Resolved" => inc.resolution_time_hours # None

\* C28: after loads from the Store, the generated fallback, the add, update
\* and delete handlers, every Resolved incident of the snapshot, the one an
\* update assigned in place included, has a resolution_time_hours.
C28_ResolvedHasResolutionTime ==
    /\ \A i \in 1..Len(incidents) : ResolvedHasTime(incidents[i])
    /\ (incResult.op = "update_form" /\ incResult.done) => ResolvedHasTime(incResult.updated)
    /\ (incResult.op = "add_form" /\ incResult.done) => ResolvedHasTime(incResult.added)

\* C28 witness: an update set an incident Resolved with the time of the form
C28_UpdatedToResolved ==
    /\ incResult.op = "update_form"
    /\ incResult.done
    /\ incResult.updated.status = "Resolved"
    /\ incResult.updated.resolution_time_hours = Some(FZero)

\* C29 (as stated): after a successful update a load from the Store yields
\* an incident with the status, severity and threat_category of the updated
\* incident.
C29_UpdateAgreesWithStore ==
    (incResult.op = "update_form" /\ incResult.done)
        => \E k \in 1..Len(load_incidents(incidentDb, FALSE).ret) :
              LET loaded == load_incidents(incidentDb, FALSE).ret[k]
              IN /\ loaded.status = incResult.updated.status
                 /\ loaded.severity = incResult.updated.severity
                 /\ loaded.threat_category = incResult.updated.threat_category

\* a step of DatasetService.get_archiving_recommendations
RecommendationsStep ==
    /\ dsResult = NoResult
    /\ dsResult'.op = "get_archiving_recommendations"

\* C26 (as stated): a service operation leaves every entity of the snapshot
\* with the field values it had before the call.
C26_ServiceLeavesSnapshot == [][RecommendationsStep => datasets' = datasets]_vars

\* C26 (amended): get_archiving_recommendations leaves the length and the
\* order of the snapshot and every field of every dataset as they were,
\* archive_score aside, which it computes for the datasets that have none; a
\* stored archive_score is kept.
C26_ServiceLeavesAllButMissingScore ==
    [][RecommendationsStep =>
          /\ Len(datasets') = Len(datasets)
          /\ \A i \in 1..Len(datasets) :
                /\ SameFields(datasets[i], datasets'[i])
                /\ datasets[i].archive_score # None
                      => datasets'[i].archive_score = datasets[i].archive_score
                /\ datasets'[i].archive_score # None]_vars

\* C26 witness: get_archiving_recommendations returned over a snapshot of two
\* datasets of different sizes, one with a computed and one with a supplied
\* archive_score
C26_RecommendedOverUnscored ==
    /\ dsResult.op = "get_archiving_recommendations"
    /\ Len(datasets) = 2
    /\ datasets[1].size_gb # datasets[2].size_gb
    /\ \E i \in 1..2 : provenance[i] = "computed" /\ datasets[i].archive_score # None
    /\ \E i \in 1..2 : provenance[i] = "supplied"

-----------------------------------------------------------------------------
(* The list get_all returns (repositories/it_ticket_repository.py).  objs is *)
(* the heap of ITTicket objects, a reference is a position of objs;          *)
(* listHeap[1] is the _tickets list of the repository and listHeap[handle]   *)
(* the list a caller holds from get_all (handle = 0: none).  assigned[r]     *)
(* keeps the status the object r was made with and the last one assigned.    *)

MaxObjects == 3

TicketStatusVals == {"New", "Resolved"}

\* the objects a list of references refers to
Deref(os, refs) == [i \in 1..Len(refs) |-> os[refs[i]]]

\* get_all that returns the _tickets list itself
GetAllSameList(lists) == [lists |-> <<lists[1]>>, handle |-> 1]

\* ITTicketRepository.get_all: self._tickets.copy(), a new list of the same
\* objects, put on the heap in place of the list fetched before
get_all(lists) == [lists |-> <<lists[1], lists[1]>>, handle |-> 2]

\* ITTicketRepository.get_by_status: the references in _tickets with the status
get_by_status(os, lists, status) == SelectSeq(lists[1], LAMBDA r : os[r].status = status)

\* ITTicketRepository.count
count(lists) == Len(lists[1])

InitGetAll ==
    /\ IdleAlias
    /\ IdleSession
    /\ IdleUsers
    /\ incidentDb = << >>
    /\ IdleScore
    /\ IdleRepo
    /\ IdleIncidents
    /\ IdleTickets

\* repository.add(ITTicket(...))
RepositoryAddTicket ==
    /\ Len(objs) < MaxObjects
    /\ \E status \in TicketStatusVals :
          /\ objs' = Append(objs, NewTicket(Len(objs) + 1, "Unassigned", "Medium", status,
                                            FZero, << >>))
          /\ assigned' = Append(assigned, [made |-> status, last |-> status])
    /\ listHeap' = [listHeap EXCEPT ![1] = Append(@, Len(objs) + 1)]
    /\ gaResult' = [op |-> "add"]
    /\ UNCHANGED <<handle, coreVars, usVars, pageVars, sessVars>>

\* all_tickets = repository.get_all()
GetAll ==
    /\ listHeap' = get_all(listHeap).lists
    /\ handle' = get_all(listHeap).handle
    /\ gaResult' = [op |-> "get_all"]
    /\ UNCHANGED <<objs, assigned, coreVars, usVars, pageVars, sessVars>>

\* all_tickets.append(ITTicket(...)) by the caller
AppendToReturned ==
    /\ handle # 0
    /\ Len(objs) < MaxObjects
    /\ \E status \in TicketStatusVals :
          /\ objs' = Append(objs, NewTicket(Len(objs) + 1, "Unassigned", "Medium", status,
                                            FZero, << >>))
          /\ assigned' = Append(assigned, [made |-> status, last |-> status])
    /\ listHeap' = [listHeap EXCEPT ![handle] = Append(@, Len(objs) + 1)]
    /\ gaResult' = [op |-> "list.append"]
    /\ UNCHANGED <<handle, coreVars, usVars, pageVars, sessVars>>

\* del all_tickets[i] by the caller
RemoveFromReturned(i) ==
    /\ handle # 0
    /\ listHeap' = [listHeap EXCEPT ![handle] = RemoveAt(@, i)]
    /\ gaResult' = [op |-> "list.remove"]
    /\ UNCHANGED <<objs, handle, assigned, coreVars, usVars, pageVars, sessVars>>

\* the assignments of the update handler to selected_ticket = all_tickets[i]
AssignSelectedTicket(i) ==
    /\ handle # 0
    /\ \E new_status \in TicketStatusVals :
          /\ objs' = [objs EXCEPT ![listHeap[handle][i]] =
                         [@ EXCEPT !.status = new_status,
                                   !.priority = "High",
                                   !.assigned_staff = "tech_support_01"]]
          /\ assigned' = [assigned EXCEPT ![listHeap[handle][i]].last = new_status]
    /\ gaResult' = [op |-> "assign"]
    /\ UNCHANGED <<listHeap, handle, coreVars, usVars, pageVars, sessVars>>

\* later queries of the repository: count, get_by_status and get_resolved
QueryRepository ==
    /\ gaResult' = [op |-> "query",
                    count |-> count(listHeap),
                    by_status |-> get_by_status(objs, listHeap, "Resolved"),
                    resolved |-> get_resolved_tickets(Deref(objs, listHeap[1]))]
    /\ UNCHANGED <<objs, listHeap, handle, assigned, coreVars, usVars, pageVars, sessVars>>

NextGetAll ==
    \/ RepositoryAddTicket
    \/ GetAll
    \/ AppendToReturned
    \/ \E i \in 1..Len(listHeap[IF handle = 0 THEN 1 ELSE handle]) : RemoveFromReturned(i)
    \/ \E i \in 1..Len(listHeap[IF handle = 0 THEN 1 ELSE handle]) : AssignSelectedTicket(i)
    \/ QueryRepository

SpecGetAll == InitGetAll /\ [][NextGetAll]_vars

\* the references of the snapshot whose last assigned status is Resolved
AssignedResolved == SelectSeq(listHeap[1], LAMBDA r : assigned[r].last = "Resolved")

\* C27: get_all returns a new list of the same objects; appending to or
\* removing from the returned list leaves the list of the repository as it
\* was; a status assigned to a ticket of the returned list is the status
\* later queries of the repository see.
C27_NewListSameObjects ==
    /\ [](gaResult.op = "query" =>
             /\ gaResult.by_status = AssignedResolved
             /\ gaResult.resolved = Deref(objs, AssignedResolved)
             /\ gaResult.count = Len(listHeap[1]))
    /\ [][(gaResult'.op \in {"list.append", "list.remove"} => listHeap'[1] = listHeap[1])
          /\ (gaResult'.op = "get_all" =>
                 /\ handle' # 1
                 /\ listHeap'[handle'] = listHeap[1]
                 /\ listHeap'[1] = listHeap[1]
                 /\ objs' = objs)]_vars

\* C27 witness: the returned list was changed, the snapshot has its two
\* tickets, and a query returned a ticket made New and assigned Resolved
C27_AssignedStatusQueried ==
    /\ gaResult.op = "query"
    /\ handle = 2
    /\ Len(listHeap[2]) # Len(listHeap[1])
    /\ gaResult.count = 2
    /\ \E k \in 1..Len(gaResult.by_status) : assigned[gaResult.by_status[k]].made = "New"

-----------------------------------------------------------------------------
(* One browser session (Home.py and the three pages).  session_state holds  *)
(* logged_in, username and user_role; rendered is what the last run of a     *)
(* script showed: the page, whether the content of its dashboard was         *)
(* rendered, and the event the run handled.                                  *)

DashboardPages == {"1_CyberSecurity", "2_DataScience", "3_ITOperations"}

SessionUsernames == {"alice", "bob"}

SessionPasswords == {<<"A", "1">>, <<"B", "2">>}

\* the role the guard of a page compares user_role with
PageRole(page) ==
    CASE page = "1_CyberSecurity" -> "Cyber Security"
      [] page = "2_DataScience" -> "Data Scientist"
      [] page = "3_ITOperations" -> "IT Operations"

\* ROLE_PAGES.get(role, "pages/1_cybersecurity.py") of Home.py
ROLE_PAGES(role) ==
    CASE role = "Cyber Security" -> "1_CyberSecurity"
      [] role = "Data Scientist" -> "2_DataScience"
      [] role = "IT Operations" -> "3_ITOperations"
      [] OTHER -> "1_CyberSecurity"

\* the guards of a page without the comparison of the role
PassesLoginGuardOnly(state, page) == state.logged_in

\* the guards of a page: TRUE iff the script goes on to the dashboard content
PassesGuards(state, page) ==
    /\ state.logged_in
    /\ state.user_role = PageRole(page)

LoggedOut == [logged_in |-> FALSE, username |-> "", user_role |-> ""]

\* Home.py stops before its tabs when a user is logged in
AlreadyLoggedIn == session_state.logged_in /\ session_state.user_role # ""

InitSession ==
    /\ IdleSession
    /\ use_database \in BOOLEAN
    /\ storage = << >>
    /\ usersTable = << >>
    /\ registered = {}
    /\ usResult = NoUsResult
    /\ incidentDb = << >>
    /\ IdleAlias
    /\ IdleScore
    /\ IdleRepo
    /\ IdleIncidents
    /\ IdleTickets

\* the "Create account" handler of Home.py
CreateAccount ==
    /\ ~AlreadyLoggedIn
    /\ \E new_username \in SessionUsernames, new_password \in SessionPasswords,
          confirm_password \in SessionPasswords, user_role \in RoleNames,
          salt \in {"salt1"} :
          IF new_password # confirm_password
          THEN UNCHANGED <<storage, usersTable, registered>>
          ELSE LET out == register_user(new_username, new_password, user_role, salt)
               IN /\ storage' = out.storage
                  /\ usersTable' = out.usersTable
                  /\ registered' = IF out.ret[1]
                                   THEN registered \cup {<<new_username, new_password, user_role>>}
                                   ELSE registered
    /\ rendered' = [page |-> "Home", content |-> FALSE, event |-> "register"]
    /\ UNCHANGED <<session_state, use_database, usResult, coreVars, pageVars, aliasVars>>

\* the "Log in" handler of Home.py; found: st.switch_page finds the script of
\* ROLE_PAGES, whose file names differ in case from the scripts of pages/
LogIn ==
    /\ ~AlreadyLoggedIn
    /\ \E login_username \in SessionUsernames, login_password \in SessionPasswords,
          found \in BOOLEAN :
          LET user == login(login_username, login_password)
              state == [logged_in |-> TRUE, username |-> user.ret[1].username,
                        user_role |-> user.ret[1].role]
          IN IF user.raised = "none" /\ user.ret # None
             THEN /\ session_state' = state
                  /\ rendered' =
                        IF found
                        THEN [page |-> ROLE_PAGES(state.user_role),
                              content |-> PassesGuards(state, ROLE_PAGES(state.user_role)),
                              event |-> "login"]
                        ELSE [page |-> "Home", content |-> FALSE, event |-> "login"]
             ELSE /\ UNCHANGED session_state
                  /\ rendered' = [page |-> "Home", content |-> FALSE,
                                  event |-> "login failed"]
    /\ UNCHANGED <<usVars, coreVars, pageVars, aliasVars>>

\* a run of the script of a dashboard page: opened, refreshed or navigated to
VisitPage(page) ==
    /\ rendered' = [page |-> page, content |-> PassesGuards(session_state, page),
                    event |-> "visit"]
    /\ UNCHANGED <<session_state, usVars, coreVars, pageVars, aliasVars>>

\* the Logout button of the sidebar of a page, which is above the guards
Logout ==
    /\ rendered.page \in DashboardPages
    /\ session_state' = LoggedOut
    /\ rendered' = [page |-> "Home", content |-> FALSE, event |-> "logout"]
    /\ UNCHANGED <<usVars, coreVars, pageVars, aliasVars>>

NextSession ==
    \/ CreateAccount
    \/ LogIn
    \/ \E page \in DashboardPages : VisitPage(page)
    \/ Logout

SpecSession == InitSession /\ [][NextSession]_vars

\* C30: the content of a dashboard is rendered only while logged_in is true
\* and user_role is the role of the dashboard; the session fields are set
\* only by a login that authenticated a registered user; logout resets them,
\* and logged_in becomes true again only by a login.
C30_ContentOnlyForRole ==
    /\ [](/\ rendered.content
             => /\ rendered.page \in DashboardPages
                /\ session_state.logged_in
                /\ session_state.user_role = PageRole(rendered.page)
          /\ session_state.logged_in
             => \E t \in registered : /\ t[1] = session_state.username
                                       /\ t[3] = session_state.user_role
          /\ ~session_state.logged_in => session_state = LoggedOut)
    /\ [][/\ rendered'.event = "login failed" => session_state' = session_state
          /\ rendered'.event = "logout" => session_state' = LoggedOut
          /\ session_state' # session_state => rendered'.event \in {"login", "logout"}
          /\ (~session_state.logged_in /\ session_state'.logged_in)
                => rendered'.event = "login"]_vars

\* C30 witness: a user with the role IT Operations is logged in and the
\* Data Science page was visited and showed no content
C30_OtherRoleDenied ==
    /\ session_state.logged_in
    /\ session_state.user_role = "IT Operations"
    /\ rendered = [page |-> "2_DataScience", content |-> FALSE, event |-> "visit"]

====
